---- MODULE Spec2Model ----
(***************************************************************************)
(* Model of the V6 prediction-market ingestion system:                     *)
(*   - V6UnifiedCrawler (historical pipeline: per-epoch processing, the    *)
(*     main backfill loop, the side recent-scan, the graceful restart),    *)
(*   - V6RealtimeListener (live bets, dedup, realbet, fan-out),            *)
(*   - the Postgres store behind a pg connection pool.                     *)
(*                                                                         *)
(* Every await in the JavaScript source is a point where another worker    *)
(* may run, so a handler is one action per awaited database statement or   *)
(* per awaited group of chain requests.                                    *)
(***************************************************************************)
EXTENDS Integers, Sequences, FiniteSets, TLC

(***************************************************************************)
(* Bounds of the model.                                                    *)
(***************************************************************************)
MaxEpoch == 5            \* the chain advances no further than this epoch
NConn == 2               \* clients the pg pool holds (the pool's default max is larger)
MaxFaults == 1           \* chain-request / statement failures injected in one behaviour
MaxTime == 3             \* listener clock, in half hours
MaxTicks == 1            \* firings of the side worker's 5-minute timer
MaxSends == 2            \* times the listener lets one bet through in one behaviour
MaxBlocks == 4           \* head block of the chains findBlockByTimestamp is run on
MaxTs == 4               \* largest block timestamp of those chains
MaxClaims == 4           \* Claim events of one wallet in the window of one epoch
MaxClock == 22           \* last millisecond of the rate limiter's clock
MaxBets == 2             \* BetBull events, and BetBear events, handed to one validation
MaxAmount == 10          \* largest total and largest side amount handed to calculatePayouts
MaxChecks == 2           \* calls of checkSuspiciousWallet after the prior bets
MaxLive == 3             \* BetBull and BetBear events delivered to the listener
MaxHours == 2            \* hours the detector is watched over
MaxClients == 3          \* frontend sockets in connectedClients
MaxPools == 3            \* pg pools the crawler creates
MaxSockets == 3          \* sockets of the listener that are alive at one time
MaxOutages == 1          \* times the chain endpoint becomes unreachable

InitEpoch == MaxEpoch - 2     \* the open round when the daemon starts
LateEpoch == MaxEpoch - 1     \* the open round of the runs that start one round later
Epochs == 1..MaxEpoch

(***************************************************************************)
(* Program constants.                                                      *)
(***************************************************************************)
TreasuryFeeRate == 300    \* CONTRACT_CONFIG.TREASURY_FEE_RATE, 0.03, in units of 1/PayoutScale
PayoutScale == 10000      \* toFixed(4): payouts have four decimals
\* the pairs (totalAmount, amount) up to 12 with totalAmount * (1 - 0.03) / amount
\* halfway between two four-decimal values whose double lies above the midpoint
\* (for 1, 5 and 11 over 8 it lies below)
TieRoundsUp == {<< 3, 8 >>, << 7, 8 >>, << 9, 8 >>}
MaxFailedAttempts == 3   \* handleEpochFailure: attempts + 1 >= 3
SkipThreshold == 3       \* shouldSkipEpoch: failure_count >= 3
FailedEpochDefaultCount == 1  \* failure_count of a freshly inserted failed_epoch row
SideFirst == 2           \* processLatestData: for (let i = 2; ...
SideLast == 6            \* processLatestData: ...; i <= 6; i++)
StartOffset == 2         \* processHistoryData: checkEpoch = currentEpoch - 2
KeepEpochs == 2          \* cleanupOldRealbet: DELETE ... WHERE epoch < currentEpoch - 2
HourTicks == 2           \* cleanupProcessedBets: one hour, in half hours
retries == 3             \* retryRequest(operation, operationName, retries = 3)
maxRequestsPerSecond == 100   \* this.maxRequestsPerSecond = 100
requestDelay == (1000 + maxRequestsPerSecond - 1) \div maxRequestsPerSecond
                         \* this.requestDelay = Math.ceil(1000 / this.maxRequestsPerSecond)
suspiciousThreshold == 3 \* V6SingleRoundClaimDetector: this.suspiciousThreshold = 3

(***************************************************************************)
(* The chain: blocks, rounds and logged events.  Round e starts in block   *)
(* 2e-1; bets of round e are mined in block 2e.  Round e is closed once    *)
(* the chain is at epoch e+2 (PancakeSwap prediction: the current epoch is *)
(* open, the one before is locked, the one before that is closed).         *)
(***************************************************************************)
StartBlock(e) == 2 * e - 1
BlockTs(n) == 10 * n
getBlockNumber(cur) == StartBlock(cur)

rounds(e, cur) ==
  [epoch          |-> IF e <= cur THEN e ELSE 0,
   startTimestamp |-> IF e <= cur THEN BlockTs(StartBlock(e)) ELSE 0,
   lockTimestamp  |-> IF e <= cur - 1 THEN BlockTs(StartBlock(e + 1)) ELSE 0,
   closeTimestamp |-> IF e <= cur - 2 THEN BlockTs(StartBlock(e + 2)) ELSE 0,
   lockPrice      |-> 300,
   closePrice     |-> 300 + ((e + 1) % 3) - 1]

\* Wallet addresses as the chain client reports them (checksummed) and lowercased.
toLowerCase(w) ==
  CASE w = "0xA" -> "0xa"
    [] w = "0xB" -> "0xb"
    [] OTHER -> w

\* Events logged on chain.  Even epochs are one-sided (UP bets only).
BetBullOf(e) ==
  << [epoch |-> e, sender |-> "0xA", amount |-> 6, tx |-> 10 * (2 * e) + 1, block |-> 2 * e] >>
BetBearOf(e) ==
  IF e % 2 = 1
  THEN << [epoch |-> e, sender |-> "0xB", amount |-> 4, tx |-> 10 * (2 * e) + 2, block |-> 2 * e] >>
  ELSE << >>
ClaimOf(e) ==
  IF e % 2 = 1
  THEN << [epoch |-> e - 1, sender |-> "0xA", amount |-> 5, tx |-> 10 * (2 * e) + 3, block |-> 2 * e] >>
  ELSE << >>

RECURSIVE LogOf(_, _)
LogOf(kind, e) ==
  IF e = 0 THEN << >>
  ELSE LogOf(kind, e - 1) \o
       (CASE kind = "BetBull" -> BetBullOf(e)
          [] kind = "BetBear" -> BetBearOf(e)
          [] OTHER -> ClaimOf(e))

\* contract.queryFilter(filter, fromBlock, toBlock)
queryFilter(kind, fromBlock, toBlock) ==
  SelectSeq(LogOf(kind, MaxEpoch), LAMBDA ev : fromBlock <= ev.block /\ ev.block <= toBlock)

(***************************************************************************)
(* TimeService and the local parse of the canonical string.                *)
(***************************************************************************)
TaipeiUtcOffset == 80
ProcessUtcOffset == TaipeiUtcOffset
formatUnixTimestamp(ts) == ts + TaipeiUtcOffset          \* wall clock in Asia/Taipei
\* new Date('YYYY-MM-DD HH:mm:ss').getTime() / 1000 in a process whose local time is
\* offset ahead of UTC: a string without a zone is read as local time
parseIn(wall, offset) == wall - offset
parseLocal(wall) == parseIn(wall, ProcessUtcOffset)
\* local time zones a process may run in: UTC, Asia/Taipei, Asia/Tokyo, America/Bogota
ProcessZones == {0, TaipeiUtcOffset, TaipeiUtcOffset + 10, -50}

(***************************************************************************)
(* The rows of the store.  One record shape for all tables.                *)
(***************************************************************************)
Row(t, epoch, wallet, dir, res, bepoch, tx, n) ==
  [t |-> t, epoch |-> epoch, wallet |-> wallet, dir |-> dir, res |-> res,
   bepoch |-> bepoch, tx |-> tx, n |-> n, copy |-> 1]

Abs(x) == IF x < 0 THEN -x ELSE x

\* findBlockByTimestamp: bisection over [1, currentBlock] tracking the closest block
RECURSIVE bisect(_, _, _, _, _)
bisect(low, high, closestBlock, closestDiff, target) ==
  IF low > high THEN closestBlock
  ELSE LET mid == (low + high) \div 2
           blockTimestamp == BlockTs(mid)
           diff == Abs(blockTimestamp - target)
           cb == IF diff < closestDiff THEN mid ELSE closestBlock
           cd == IF diff < closestDiff THEN diff ELSE closestDiff
       IN  IF blockTimestamp < target THEN bisect(mid + 1, high, cb, cd, target)
           ELSE IF blockTimestamp > target THEN bisect(low, mid - 1, cb, cd, target)
           ELSE mid

findBlockByTimestamp(targetTimestamp, cur) ==
  LET currentBlock == getBlockNumber(cur)
      currentTimestamp == BlockTs(currentBlock)
  IN  IF targetTimestamp >= currentTimestamp THEN currentBlock
      ELSE bisect(1, currentBlock, currentBlock,
                  Abs(currentTimestamp - targetTimestamp), targetTimestamp)

\* getRoundData without the test of closeTimestamp
getRoundDataUnfinished(e, cur) ==
  LET r == rounds(e, cur)
  IN  [ok       |-> TRUE,
       epoch    |-> r.epoch,
       start_ts |-> formatUnixTimestamp(r.startTimestamp),
       result   |-> IF r.closePrice > r.lockPrice THEN "UP"
                    ELSE IF r.closePrice < r.lockPrice THEN "DOWN" ELSE "NONE"]

\* getRoundData: null (ok = FALSE) while the round is not closed
getRoundData(e, cur) ==
  LET r == rounds(e, cur)
  IN  [ok       |-> r.closeTimestamp # 0,
       epoch    |-> r.epoch,
       start_ts |-> formatUnixTimestamp(r.startTimestamp),
       result   |-> IF r.closePrice > r.lockPrice THEN "UP"
                    ELSE IF r.closePrice < r.lockPrice THEN "DOWN" ELSE "NONE"]

NoRoundData == [ok |-> FALSE, epoch |-> 0, start_ts |-> 0, result |-> "NONE"]

\* getNextEpochStartTime: 0 stands for null
getNextEpochStartTime(nextEpoch, cur) == rounds(nextEpoch, cur).startTimestamp

\* getEventsInRange: the three queries; a failed request yields three empty lists
getEventsInRange(fromBlock, toBlock, failed) ==
  IF failed
  THEN [betBullEvents |-> << >>, betBearEvents |-> << >>, claimEvents |-> << >>]
  ELSE [betBullEvents |-> queryFilter("BetBull", fromBlock, toBlock),
        betBearEvents |-> queryFilter("BetBear", fromBlock, toBlock),
        claimEvents   |-> queryFilter("Claim", fromBlock, toBlock)]

\* processBetEvents with WIN and LOSS exchanged
processBetEventsInverted(events, direction, roundResult) ==
  [k \in 1..Len(events) |->
     Row("hisbet", events[k].epoch, toLowerCase(events[k].sender), direction,
         IF roundResult # "NONE"
         THEN (IF direction = roundResult THEN "LOSS" ELSE "WIN")
         ELSE "NONE",
         0, events[k].tx, events[k].amount)]

processBetEvents(events, direction, roundResult) ==
  [k \in 1..Len(events) |->
     Row("hisbet", events[k].epoch, toLowerCase(events[k].sender), direction,
         IF roundResult # "NONE"
         THEN (IF direction = roundResult THEN "WIN" ELSE "LOSS")
         ELSE "NONE",
         0, events[k].tx, events[k].amount)]

\* processClaimEvents storing the event's epoch in both columns
processClaimEventsBetEpoch(events, processingEpoch) ==
  [k \in 1..Len(events) |->
     Row("claim", events[k].epoch, toLowerCase(events[k].sender), "", "",
         events[k].epoch, events[k].tx, events[k].amount)]

processClaimEvents(events, processingEpoch) ==
  [k \in 1..Len(events) |->
     Row("claim", processingEpoch, toLowerCase(events[k].sender), "", "",
         events[k].epoch, events[k].tx, events[k].amount)]

roundRow(roundData) == Row("round", roundData.epoch, "", "", roundData.result, 0, 0, 0)

\* validateDataIntegrity without the test for both directions
validateDataIntegrityAnyBet(epoch, roundData, betData, claimData) ==
  /\ roundData.ok
  /\ roundData.epoch # 0
  /\ Len(betData) > 0

\* validateDataIntegrity: every required field of a roundData that getRoundData built
\* is a non-empty string or null, so the loop over requiredFields rejects nothing;
\* claimData is looked at for logging only
validateDataIntegrity(epoch, roundData, betData, claimData) ==
  /\ roundData.ok
  /\ roundData.epoch # 0
  /\ Len(betData) > 0
  /\ \E k \in 1..Len(betData) : betData[k].dir = "UP"
  /\ \E k \in 1..Len(betData) : betData[k].dir = "DOWN"

\* Number.prototype.toFixed(4) without the rounding: the digits are cut off
toFixed4Truncate(num, den, total) == num \div den

\* (num / den).toFixed(4) in units of 1/PayoutScale, num being in those units already:
\* the four-decimal value nearest to the quotient.  When the exact quotient lies
\* halfway between two such values, the double that the division produced lies on one
\* side of the midpoint; TieRoundsUp holds the (totalAmount, amount) pairs for which
\* it lies above
toFixed4(num, den, total) ==
  LET q == num \div den
      r == num % den
  IN  IF 2 * r > den \/ (2 * r = den /\ << total, den >> \in TieRoundsUp)
      THEN q + 1 ELSE q

\* calculatePayouts: amounts are whole numbers, payouts are in units of 1/PayoutScale
calculatePayouts(totalAmount, upAmount, downAmount) ==
  LET totalAfterFee == totalAmount * (PayoutScale - TreasuryFeeRate)
  IN  [upPayout   |-> IF upAmount > 0 THEN toFixed4(totalAfterFee, upAmount, totalAmount)
                      ELSE 0,
       downPayout |-> IF downAmount > 0 THEN toFixed4(totalAfterFee, downAmount, totalAmount)
                      ELSE 0]

\* processEpochData: fromBlock and toBlock of the epoch's event queries
blockRange(epoch, cur) ==
  LET roundData == getRoundData(epoch, cur)
      nextEpochStartTime == getNextEpochStartTime(epoch + 1, cur)
      currentStartTime == parseLocal(roundData.start_ts)
  IN  [fromBlock |-> findBlockByTimestamp(currentStartTime, cur),
       toBlock   |-> findBlockByTimestamp(nextEpochStartTime, cur)]

\* a row of multi_claims
MultiClaimRow(epoch, wallet, claim_count, total_amount) ==
  [t |-> "multi_claims", epoch |-> epoch, wallet |-> wallet, dir |-> "", res |-> "",
   bepoch |-> 0, tx |-> 0, n |-> total_amount, copy |-> 1, claim_count |-> claim_count]

RECURSIVE totalAmount(_, _)
totalAmount(claimData, wallet) ==
  IF Len(claimData) = 0 THEN 0
  ELSE (IF toLowerCase(Head(claimData).wallet) = wallet THEN Head(claimData).n ELSE 0)
       + totalAmount(Tail(claimData), wallet)

\* checkSingleRoundMultiClaims: walletStats, one entry per wallet of claimData
walletStats(epoch, claimData) ==
  {MultiClaimRow(epoch, w,
                 Cardinality({k \in 1..Len(claimData) : toLowerCase(claimData[k].wallet) = w}),
                 totalAmount(claimData, w)) :
     w \in {toLowerCase(claimData[k].wallet) : k \in 1..Len(claimData)}}

\* checkSingleRoundMultiClaims: the wallets of claimData with more than
\* suspiciousThreshold entries, each with its count and its summed amount
checkSingleRoundMultiClaims(epoch, claimData) ==
  {m \in walletStats(epoch, claimData) :
     m.claim_count > suspiciousThreshold}

\* recordSuspiciousWallets: INSERT ... ON CONFLICT (epoch, wallet_address) DO UPDATE
recordSuspiciousWallets(table, suspiciousWallets) ==
  {x \in table : ~(x.t = "multi_claims" /\ \E m \in suspiciousWallets :
                     m.epoch = x.epoch /\ m.wallet = x.wallet)}
    \cup suspiciousWallets

(***************************************************************************)
(* State.                                                                  *)
(***************************************************************************)
VARIABLES
  curEpoch,             \* contract.currentEpoch()
  db,                   \* committed rows of round, hisbet, claim, realbet, failed_epoch
  conn,                 \* the pool's clients: open transaction and its uncommitted changes
  faults,               \* failures still to be injected
  failedAttempts,       \* V6UnifiedCrawler.failedAttempts
  isProcessingHistory,  \* V6UnifiedCrawler.isProcessingHistory
  shouldStopHistory,    \* V6UnifiedCrawler.shouldStopHistory
  proc,                 \* the asynchronous workers of the crawler and where each stands
  coord,                \* the periodic tasks: startPeriodicTasks / gracefulStopAndRestart
  currentRound,         \* V6RealtimeListener.currentRound
  processedBets,        \* V6RealtimeListener.processedBets: key -> time of entry
  now,                  \* the listener's clock
  isConnected,          \* V6RealtimeListener.isConnected
  inflight,             \* handleBetEvent calls that await their INSERT into realbet
  search,               \* a call of findBlockByTimestamp: its chain, target and locals
  ingest,               \* Claim events on chain and the claim rows stored from them
  retry,                \* a call of retryRequest: its operation's outcomes and its locals
  limiter,              \* the clock, lastRequestTime and the callers of rateLimit
  call,                 \* a call of a function without side effects: arguments and result
  link,                 \* the listener's chain sockets, its attempt to connect and its reconnect timer
  manager,              \* ConnectionManager: status, its websocket and pool, the last store operation
  monitor,              \* SuspiciousWalletMonitor, wallet_note and the bet handlers that await it
  pools,                \* V6UnifiedCrawler: its pools and the detector's pool
  hist                  \* history of what happened, read by the properties only

vars == << curEpoch, db, conn, faults, failedAttempts, isProcessingHistory,
           shouldStopHistory, proc, coord, currentRound, processedBets, now,
           isConnected, inflight, search, ingest, retry,
           limiter, call,
           link,
           manager,
           monitor,
           pools, hist >>

crawlerVars == << failedAttempts, isProcessingHistory, shouldStopHistory, proc, coord >>
listenerVars == << processedBets, now, isConnected, inflight >>
utilVars == << search, ingest, retry, limiter, call, link, manager, monitor, pools >>
systemVars == << curEpoch, db, conn, faults, crawlerVars, currentRound, listenerVars, hist >>

MainLoops == {"main1", "main2"}      \* processHistoryData invocations that may be alive
Workers == MainLoops \cup {"side", "call", "range"}   \* "call": processEpochData invoked
                                    \* directly; "range": processEpochRange

(***************************************************************************)
(* The store behind pool.query.  Each call of pool.query runs on some      *)
(* client of the pool; a client holds at most one open transaction, whose  *)
(* changes stay private until COMMIT.                                      *)
(***************************************************************************)
IdleConn == [open |-> FALSE, add |-> {}, del |-> {}]
NoRow == Row("", 0, "", "", "", 0, 0, 0)

Stmt(op, row, t, e) == [op |-> op, row |-> row, t |-> t, e |-> e]
Begin == Stmt("BEGIN", NoRow, "", 0)
Commit == Stmt("COMMIT", NoRow, "", 0)
RollbackStmt == Stmt("ROLLBACK", NoRow, "", 0)
Insert(row) == Stmt("INSERT", row, row.t, row.epoch)
DeleteWhereEpoch(t, e) == Stmt("DELETE", NoRow, t, e)
DeleteBelow(t, e) == Stmt("SWEEP", NoRow, t, e)
UpsertFailedEpoch(e) == Stmt("RECORD", NoRow, "failed_epoch", e)

\* the rows a client sees: committed rows and its own uncommitted changes
View(c) == (db \ conn[c].del) \cup conn[c].add

\* INSERTs that carry no ON CONFLICT clause
ConflictsNever(r, view) == FALSE

\* ON CONFLICT target of each table (the INSERT into realbet has none)
Conflicts(r, view) ==
  \E x \in view :
    /\ x.t = r.t
    /\ \/ r.t = "round" /\ x.epoch = r.epoch
       \/ r.t \in {"hisbet", "claim"} /\ x.tx = r.tx

\* the row an INSERT adds: a table is a bag, so a row equal to one already there
\* is one more copy of it
Inserted(r, view) ==
  [r EXCEPT !.copy = 1 + Cardinality({x \in view : [x EXCEPT !.copy = 1] = r})]

Effect(s, view) ==
  CASE s.op = "INSERT" -> IF Conflicts(s.row, view) THEN view
                          ELSE view \cup {Inserted(s.row, view)}
    [] s.op = "DELETE" -> view \ {x \in view : x.t = s.t /\ x.epoch = s.e}
    [] s.op = "SWEEP"  -> view \ {x \in view : x.t = s.t /\ x.epoch < s.e}
    [] s.op = "RECORD" ->
         LET old == {x \in view : x.t = "failed_epoch" /\ x.epoch = s.e}
         IN  IF old = {}
             THEN view \cup {Row("failed_epoch", s.e, "", "", "", 0, 0, FailedEpochDefaultCount)}
             ELSE (view \ old) \cup {[x EXCEPT !.n = @ + 1] : x \in old}
    [] OTHER -> view

\* statement s succeeds on client c
Run(c, s) ==
  IF s.op = "BEGIN"
  THEN /\ conn' = [conn EXCEPT ![c].open = TRUE]
       /\ db' = db
  ELSE IF s.op = "COMMIT"
  THEN /\ db' = View(c)
       /\ conn' = [conn EXCEPT ![c] = IdleConn]
  ELSE IF s.op = "ROLLBACK"
  THEN /\ db' = db
       /\ conn' = [conn EXCEPT ![c] = IdleConn]
  ELSE LET nv == Effect(s, View(c))
       IN  IF conn[c].open
           THEN /\ conn' = [conn EXCEPT ![c].add = nv \ db, ![c].del = db \ nv]
                /\ db' = db
           ELSE /\ db' = nv
                /\ conn' = conn

\* statement fails on client c: pool.query releases the client with the error,
\* the pool discards it and the server rolls its transaction back
Broken(c) ==
  /\ conn' = [conn EXCEPT ![c] = IdleConn]
  /\ db' = db

Clients == DOMAIN conn

\* hasRoundData: the SELECT on client c finds a round row of the epoch
hasRoundData(c, epoch) == \E x \in View(c) : x.t = "round" /\ x.epoch = epoch

\* a query of the store may reject while failures are left to inject
QueryFails == IF faults > 0 THEN {FALSE, TRUE} ELSE {FALSE}

\* hasRoundData with its catch block: a SELECT that rejects is answered false
hasRoundDataResult(c, epoch, failed) == ~failed /\ hasRoundData(c, epoch)

shouldSkipEpoch(c, epoch) ==
  \E x \in View(c) : x.t = "failed_epoch" /\ x.epoch = epoch /\ x.n >= SkipThreshold

RealbetRows(S, e) == {x \in S : x.t = "realbet" /\ x.epoch = e}

(***************************************************************************)
(* The workers of the crawler.  proc[p].pc is the await at which worker p  *)
(* stands; q holds the statements its current transaction still has to     *)
(* issue; wrote collects the rows its saveCompleteRoundData call inserted;  *)
(* again records that the round was already stored when the call began.    *)
(***************************************************************************)
ProcIdle ==
  [pc |-> "idle", cur |-> 0, checkEpoch |-> 0, i |-> 0, epoch |-> 0,
   q |-> << >>, wrote |-> {}, again |-> FALSE, reason |-> ""]

InsideEpoch == {"skipCheck", "fetch", "save", "rollback", "saveFailed", "cleanup",
                "detect", "fail", "delete", "rollbackDel"}

EpochRows(S, e) ==
  {x \in S : (x.t \in {"round", "claim"} /\ x.epoch = e) \/ (x.t = "hisbet" /\ x.epoch = e)}

\* the await of processEpochData(epoch) resumes in its caller
Returned(p) ==
  IF p = "side"
  THEN [proc[p] EXCEPT !.pc = "sideLoop", !.i = @ + 1, !.epoch = 0, !.q = << >>,
                       !.wrote = {}, !.reason = ""]
  ELSE IF p = "call" THEN ProcIdle
  ELSE IF p = "range"
  THEN [proc[p] EXCEPT !.pc = "rangeLoop", !.checkEpoch = @ + 1, !.epoch = 0, !.q = << >>,
                       !.wrote = {}, !.reason = ""]
  ELSE [proc[p] EXCEPT !.pc = "afterEpoch", !.q = << >>, !.wrote = {}, !.reason = ""]

\* processEpochData, line 642
SkipCheck(p) ==
  /\ proc[p].pc = "skipCheck"
  /\ \E c \in Clients :
       proc' = [proc EXCEPT ![p] = IF shouldSkipEpoch(c, proc[p].epoch)
                                   THEN Returned(p)
                                   ELSE [proc[p] EXCEPT !.pc = "fetch"]]
  /\ UNCHANGED << utilVars, curEpoch, db, conn, faults, failedAttempts, isProcessingHistory,
                  shouldStopHistory, coord, currentRound, listenerVars, hist >>

FaultKinds == {"none", "round", "block", "events"}

saveStatements(roundData, betData, claimData) ==
  << Begin, Insert(roundRow(roundData)) >>
    \o [k \in 1..Len(betData) |-> Insert(betData[k])]
    \o [k \in 1..Len(claimData) |-> Insert(claimData[k])]
    \o << Commit >>

\* processEpochData, lines 648-709: the chain requests and the integrity check
Fetch(p) ==
  /\ proc[p].pc = "fetch"
  /\ \E f \in FaultKinds :
       /\ f # "none" => faults > 0
       /\ faults' = IF f = "none" THEN faults ELSE faults - 1
       /\ LET epoch == proc[p].epoch
              roundData == IF f = "round" THEN NoRoundData ELSE getRoundData(epoch, curEpoch)
              nextEpochStartTime == getNextEpochStartTime(epoch + 1, curEpoch)
              currentStartTime == parseLocal(roundData.start_ts)
              fromBlock == findBlockByTimestamp(currentStartTime, curEpoch)
              toBlock == findBlockByTimestamp(nextEpochStartTime, curEpoch)
              events == getEventsInRange(fromBlock, toBlock, f = "events")
              betData == processBetEvents(events.betBullEvents, "UP", roundData.result)
                           \o processBetEvents(events.betBearEvents, "DOWN", roundData.result)
              claimData == processClaimEvents(events.claimEvents, epoch)
          IN  proc' = [proc EXCEPT ![p] =
                IF ~roundData.ok \/ nextEpochStartTime = 0 THEN Returned(p)
                ELSE IF f = "block" \/ fromBlock = 0 \/ toBlock = 0
                     THEN [proc[p] EXCEPT !.pc = "fail", !.reason = "error"]
                ELSE IF validateDataIntegrity(epoch, roundData, betData, claimData)
                     THEN [proc[p] EXCEPT !.pc = "save",
                                          !.q = saveStatements(roundData, betData, claimData)]
                     ELSE [proc[p] EXCEPT !.pc = "fail", !.reason = "integrity"]]
  /\ hist' = IF \/ rounds(proc[p].epoch, curEpoch).closeTimestamp = 0
                 \/ rounds(proc[p].epoch + 1, curEpoch).startTimestamp = 0
              THEN [hist EXCEPT !.unfinished = proc[p].epoch]
              ELSE hist
  /\ UNCHANGED << utilVars, curEpoch, db, conn, failedAttempts, isProcessingHistory,
                  shouldStopHistory, coord, currentRound, listenerVars >>

\* one awaited this.db.query of saveCompleteRoundData or deleteRoundData succeeds
ExecStmt(p) ==
  /\ proc[p].pc \in {"save", "delete"}
  /\ proc[p].q # << >>
  /\ \E c \in Clients :
       LET s == Head(proc[p].q)
           last == Tail(proc[p].q) = << >>
           new == IF s.op = "INSERT" /\ ~Conflicts(s.row, View(c))
                  THEN {Inserted(s.row, View(c))} ELSE {}
       IN  /\ Run(c, s)
           /\ proc' = [proc EXCEPT ![p] =
                IF last /\ proc[p].pc = "delete" THEN Returned(p)
                ELSE [proc[p] EXCEPT !.q = Tail(@), !.wrote = @ \cup new,
                                     !.pc = IF last THEN "cleanup" ELSE @]]
           /\ hist' = IF last /\ proc[p].pc = "save"
                      THEN [hist EXCEPT !.saved = @ \cup {proc[p].epoch}]
                      ELSE hist
  /\ UNCHANGED << utilVars, curEpoch, faults, failedAttempts, isProcessingHistory,
                  shouldStopHistory, coord, currentRound, listenerVars >>

\* one awaited this.db.query of saveCompleteRoundData or deleteRoundData rejects
ExecStmtFails(p) ==
  /\ proc[p].pc \in {"save", "delete"}
  /\ proc[p].q # << >>
  /\ faults > 0
  /\ faults' = faults - 1
  /\ \E c \in Clients : Broken(c)
  /\ proc' = [proc EXCEPT ![p].pc = IF @ = "save" THEN "rollback" ELSE "rollbackDel",
                          ![p].q = << >>]
  /\ UNCHANGED << utilVars, curEpoch, failedAttempts, isProcessingHistory,
                  shouldStopHistory, coord, currentRound, listenerVars, hist >>

\* the catch blocks: await client.query('ROLLBACK')
Rollback(p) ==
  /\ proc[p].pc \in {"rollback", "rollbackDel"}
  /\ \E c \in Clients : Run(c, RollbackStmt)
  /\ proc' = [proc EXCEPT ![p] = IF proc[p].pc = "rollback"
                                 THEN [proc[p] EXCEPT !.pc = "saveFailed"]
                                 ELSE Returned(p)]
  /\ UNCHANGED << utilVars, curEpoch, faults, failedAttempts, isProcessingHistory,
                  shouldStopHistory, coord, currentRound, listenerVars, hist >>

\* processEpochData, lines 736-739: saveCompleteRoundData returned false
SaveFailed(p) ==
  /\ proc[p].pc = "saveFailed"
  /\ proc' = [proc EXCEPT ![p].pc = "fail", ![p].wrote = {}, ![p].reason = "save"]
  /\ UNCHANGED << utilVars, curEpoch, db, conn, faults, failedAttempts, isProcessingHistory,
                  shouldStopHistory, coord, currentRound, listenerVars, hist >>

\* cleanupRealbetData(epoch) issued by anyone: DELETE FROM realbet WHERE epoch = $1
cleanupRealbetData(c, epoch) ==
  /\ Run(c, DeleteWhereEpoch("realbet", epoch))
  /\ hist' = IF RealbetRows(View(c), epoch) # {} /\ ~hasRoundData(c, epoch)
             THEN [hist EXCEPT !.hc = @ \cup {epoch}]
             ELSE hist

\* processEpochData, line 718
Cleanup(p) ==
  /\ proc[p].pc = "cleanup"
  /\ \E c \in Clients : cleanupRealbetData(c, proc[p].epoch)
  /\ proc' = [proc EXCEPT ![p].pc = "detect"]
  /\ UNCHANGED << utilVars, curEpoch, faults, failedAttempts, isProcessingHistory,
                  shouldStopHistory, coord, currentRound, listenerVars >>

\* processEpochData, lines 721-735
Detect(p) ==
  /\ proc[p].pc = "detect"
  /\ LET epoch == proc[p].epoch
         range == blockRange(epoch, curEpoch)
         claimData == processClaimEvents(
                        queryFilter("Claim", range.fromBlock, range.toBlock), epoch)
     IN  db' = recordSuspiciousWallets(db, checkSingleRoundMultiClaims(epoch, claimData))
  /\ failedAttempts' = [failedAttempts EXCEPT ![proc[p].epoch] = 0]
  /\ proc' = [proc EXCEPT ![p] = Returned(p)]
  /\ UNCHANGED << utilVars, curEpoch, conn, faults, isProcessingHistory,
                  shouldStopHistory, coord, currentRound, listenerVars, hist >>

deleteStatements(epoch) ==
  << Begin, DeleteWhereEpoch("claim", epoch), DeleteWhereEpoch("hisbet", epoch),
     DeleteWhereEpoch("round", epoch), Commit >>

\* handleEpochFailure: the third failure is recorded in failed_epoch and the
\* in-memory counter dropped; an earlier one goes on to deleteRoundData
handleEpochFailure(p) ==
  /\ proc[p].pc = "fail"
  /\ LET epoch == proc[p].epoch
         attempts == failedAttempts[epoch]
     IN  IF attempts + 1 >= MaxFailedAttempts
         THEN /\ \E c \in Clients : Run(c, UpsertFailedEpoch(epoch))
              /\ failedAttempts' = [failedAttempts EXCEPT ![epoch] = 0]
              /\ proc' = [proc EXCEPT ![p] = Returned(p)]
         ELSE /\ failedAttempts' = [failedAttempts EXCEPT ![epoch] = attempts + 1]
              /\ proc' = [proc EXCEPT ![p].pc = "delete", ![p].q = deleteStatements(epoch),
                                      ![p].reason = ""]
              /\ UNCHANGED << db, conn >>
  /\ UNCHANGED << utilVars, curEpoch, faults, isProcessingHistory, shouldStopHistory, coord,
                  currentRound, listenerVars, hist >>

\* getCurrentEpoch: 0 when the request fails
CurrentEpochReads == IF faults > 0 THEN {0, curEpoch} ELSE {curEpoch}

\* processLatestData, line 1108
processLatestData ==
  /\ coord.pc \notin {"boot", "halted"}
  /\ coord.ticks < MaxTicks
  /\ coord' = [coord EXCEPT !.ticks = @ + 1]
  /\ proc["side"].pc = "idle"
  /\ \E currentEpoch \in CurrentEpochReads :
       /\ faults' = IF currentEpoch = curEpoch THEN faults ELSE faults - 1
       /\ proc' = [proc EXCEPT !["side"] = [ProcIdle EXCEPT !.pc = "sideLoop",
                                                            !.cur = currentEpoch,
                                                            !.i = SideFirst]]
  /\ UNCHANGED << utilVars, curEpoch, db, conn, failedAttempts, isProcessingHistory,
                  shouldStopHistory, currentRound, listenerVars, hist >>

\* processLatestData, lines 1119-1126, with processEpochIfNeeded
SideLoop ==
  /\ proc["side"].pc = "sideLoop"
  /\ LET me == proc["side"]
         targetEpoch == me.cur - me.i
     IN  IF me.i > SideLast \/ targetEpoch <= 0
         THEN /\ proc' = [proc EXCEPT !["side"] =
                            IF me.i > SideLast THEN ProcIdle ELSE [me EXCEPT !.i = @ + 1]]
              /\ UNCHANGED faults
         ELSE \E c \in Clients, failed \in QueryFails :
                /\ faults' = IF failed THEN faults - 1 ELSE faults
                /\ proc' = [proc EXCEPT !["side"] =
                     IF hasRoundDataResult(c, targetEpoch, failed)
                     THEN [me EXCEPT !.i = @ + 1]
                     ELSE [me EXCEPT !.pc = "skipCheck", !.epoch = targetEpoch]]
  /\ UNCHANGED << utilVars, curEpoch, db, conn, failedAttempts, isProcessingHistory,
                  shouldStopHistory, coord, currentRound, listenerVars, hist >>

\* processHistoryData, lines 1159-1168
HistoryGetEpoch(p) ==
  /\ proc[p].pc = "getEpoch"
  /\ \E currentEpoch \in CurrentEpochReads :
       /\ faults' = IF currentEpoch = curEpoch THEN faults ELSE faults - 1
       /\ proc' = [proc EXCEPT ![p].pc = "loop", ![p].cur = currentEpoch,
                               ![p].checkEpoch = currentEpoch - StartOffset]
  /\ UNCHANGED << utilVars, curEpoch, db, conn, failedAttempts, isProcessingHistory,
                  shouldStopHistory, coord, currentRound, listenerVars, hist >>

\* the finally block of processHistoryData
Finally(p) ==
  /\ isProcessingHistory' = FALSE
  /\ shouldStopHistory' = FALSE
  /\ proc' = [proc EXCEPT ![p] = ProcIdle]
  /\ hist' = [hist EXCEPT !.stopped = @ \ {p}]

\* processHistoryData, lines 1177-1185: the loop condition and hasRoundData
HistoryLoop(p) ==
  /\ proc[p].pc = "loop"
  /\ IF isProcessingHistory /\ ~shouldStopHistory /\ proc[p].checkEpoch > 0
     THEN /\ \E c \in Clients, failed \in QueryFails :
               /\ faults' = IF failed THEN faults - 1 ELSE faults
               /\ proc' = [proc EXCEPT ![p] =
                    IF hasRoundDataResult(c, proc[p].checkEpoch, failed)
                    THEN [proc[p] EXCEPT !.pc = "afterEpoch"]
                    ELSE [proc[p] EXCEPT !.pc = "skipCheck", !.epoch = proc[p].checkEpoch]]
          /\ UNCHANGED << isProcessingHistory, shouldStopHistory, hist >>
     ELSE /\ Finally(p)
          /\ UNCHANGED faults
  /\ UNCHANGED << utilVars, curEpoch, db, conn, failedAttempts, coord, currentRound,
                  listenerVars >>

\* processHistoryData without checkEpoch--
HistoryAfterEpochStay(p) ==
  /\ proc[p].pc = "afterEpoch"
  /\ IF shouldStopHistory
     THEN Finally(p)
     ELSE /\ proc' = [proc EXCEPT ![p].pc = "loop", ![p].epoch = 0]
          /\ UNCHANGED << isProcessingHistory, shouldStopHistory, hist >>
  /\ UNCHANGED << utilVars, curEpoch, db, conn, faults, failedAttempts, coord, currentRound,
                  listenerVars >>

\* processHistoryData, lines 1193-1207: checkEpoch--, the stop check, the delay
HistoryAfterEpoch(p) ==
  /\ proc[p].pc = "afterEpoch"
  /\ IF shouldStopHistory
     THEN Finally(p)
     ELSE /\ proc' = [proc EXCEPT ![p].pc = "loop", ![p].checkEpoch = @ - 1, ![p].epoch = 0]
          /\ UNCHANGED << isProcessingHistory, shouldStopHistory, hist >>
  /\ UNCHANGED << utilVars, curEpoch, db, conn, faults, failedAttempts, coord, currentRound,
                  listenerVars >>

FreeLoops == {p \in MainLoops : proc[p].pc = "idle"}

\* startHistoryBackfill with its guard inverted
startHistoryBackfillInverted ==
  IF isProcessingHistory
  THEN /\ isProcessingHistory' = TRUE
       /\ shouldStopHistory' = FALSE
       /\ LET p == IF "main1" \in FreeLoops THEN "main1" ELSE "main2"
          IN  proc' = [proc EXCEPT ![p] = [ProcIdle EXCEPT !.pc = "getEpoch"]]
  ELSE UNCHANGED << isProcessingHistory, shouldStopHistory, proc >>

\* startHistoryBackfill with the synchronous head of processHistoryData (lines 1150-1156)
startHistoryBackfill ==
  IF ~isProcessingHistory
  THEN /\ isProcessingHistory' = TRUE
       /\ shouldStopHistory' = FALSE
       /\ LET p == IF "main1" \in FreeLoops THEN "main1" ELSE "main2"
          IN  proc' = [proc EXCEPT ![p] = [ProcIdle EXCEPT !.pc = "getEpoch"]]
  ELSE UNCHANGED << isProcessingHistory, shouldStopHistory, proc >>

(***************************************************************************)
(* The periodic tasks: start-up, the 30-minute graceful restart, shutdown. *)
(***************************************************************************)
MAX_BET_AMOUNT == 10              \* MONITORING_CONSTANTS: largest bet without a flag
SUSPICIOUS_BET_COUNT == 100       \* ... most bets of a wallet without a flag
HIGH_FREQUENCY_WINDOW == 60000    \* ... the window of the frequency check, in ms
MAX_BETS_IN_WINDOW == 10          \* ... most bets of a wallet in the window
OneHour == 3600000                \* SuspiciousWalletMonitor.cleanup: oneHourAgo = now - 3600000
MAX_RECONNECT_ATTEMPTS == 5   \* ConnectionManager: most websocket reconnect attempts
ValidateFirst == 2       \* validateRealbetCleanup: currentEpoch - 2 ...
ValidateLast == 4        \* ... currentEpoch - 4

LoopsInsideEpoch == {p \in MainLoops : proc[p].pc \in InsideEpoch}

startPeriodicTasks ==
  /\ coord.pc = "boot"
  /\ startHistoryBackfill
  /\ coord' = [coord EXCEPT !.pc = "idle"]
  /\ UNCHANGED << utilVars, curEpoch, db, conn, faults, failedAttempts, currentRound,
                  listenerVars, hist >>

\* gracefulStopAndRestart, lines 1336-1338
GracefulBegin ==
  /\ coord.pc = "idle"
  /\ IF isProcessingHistory
     THEN /\ shouldStopHistory' = TRUE
          /\ coord' = [coord EXCEPT !.pc = "drain"]
          /\ hist' = [hist EXCEPT !.stopped = @ \cup LoopsInsideEpoch]
     ELSE /\ coord' = [coord EXCEPT !.pc = "validate"]
          /\ UNCHANGED << shouldStopHistory, hist >>
  /\ UNCHANGED << utilVars, curEpoch, db, conn, faults, failedAttempts, isProcessingHistory, proc,
                  currentRound, listenerVars >>

\* gracefulStopAndRestart, lines 1344-1359: the wait ends because the loop has
\* finished, or because 60 s have passed and the flags are reset by force
Drain ==
  /\ coord.pc = "drain"
  /\ isProcessingHistory' = FALSE
  /\ shouldStopHistory' = IF isProcessingHistory THEN FALSE ELSE shouldStopHistory
  /\ coord' = [coord EXCEPT !.pc = "validate"]
  /\ UNCHANGED << utilVars, curEpoch, db, conn, faults, failedAttempts, proc, currentRound,
                  listenerVars, hist >>

\* validateRealbetCleanup, lines 1472-1473
Validate ==
  /\ coord.pc = "validate"
  /\ \E currentEpoch \in CurrentEpochReads :
       /\ faults' = IF currentEpoch = curEpoch THEN faults ELSE faults - 1
       /\ coord' = [coord EXCEPT !.pc = "vclean", !.cur = currentEpoch, !.j = ValidateFirst]
  /\ UNCHANGED << utilVars, curEpoch, db, conn, failedAttempts, isProcessingHistory,
                  shouldStopHistory, proc, currentRound, listenerVars, hist >>

\* validateRealbetCleanup, lines 1475-1489: one epoch of checkEpochs; a query that
\* rejects ends the validation in its catch block
validateRealbetCleanup ==
  /\ coord.pc = "vclean"
  /\ LET epoch == coord.cur - coord.j
     IN  IF coord.j > ValidateLast
         THEN /\ coord' = [coord EXCEPT !.pc = "timer", !.cur = 0, !.j = 0]
              /\ UNCHANGED << db, conn, hist >>
         ELSE \E failed \in BOOLEAN :
                IF failed
                THEN /\ coord' = [coord EXCEPT !.pc = "timer", !.cur = 0, !.j = 0]
                     /\ UNCHANGED << db, conn, hist >>
                ELSE /\ coord' = [coord EXCEPT !.j = @ + 1]
                     /\ \E c \in Clients :
                          IF epoch <= 0 \/ RealbetRows(View(c), epoch) = {}
                          THEN UNCHANGED << db, conn, hist >>
                          ELSE \E c2 \in Clients : cleanupRealbetData(c2, epoch)
  /\ UNCHANGED << utilVars, curEpoch, faults, failedAttempts, isProcessingHistory,
                  shouldStopHistory, proc, currentRound, listenerVars >>

\* gracefulStopAndRestart, lines 1406-1409: the 5 s timer fires
RestartTimer ==
  /\ coord.pc = "timer"
  /\ isProcessingHistory \/ FreeLoops # {}
  /\ startHistoryBackfill
  /\ coord' = [coord EXCEPT !.pc = "idle"]
  /\ UNCHANGED << utilVars, curEpoch, db, conn, faults, failedAttempts, currentRound,
                  listenerVars, hist >>

\* SIGINT / SIGTERM: stopHistoryBackfill, lines 1294-1296
Sigint ==
  /\ coord.pc = "idle"
  /\ coord' = [coord EXCEPT !.pc = "stopping"]
  /\ IF isProcessingHistory
     THEN /\ shouldStopHistory' = TRUE
          /\ hist' = [hist EXCEPT !.stopped = @ \cup LoopsInsideEpoch]
     ELSE UNCHANGED << shouldStopHistory, hist >>
  /\ UNCHANGED << utilVars, curEpoch, db, conn, faults, failedAttempts, isProcessingHistory, proc,
                  currentRound, listenerVars >>

\* stopHistoryBackfill, lines 1300-1309, then process.exit: the loops end where they
\* stand and the server rolls back what the closed connections left open
StopWait ==
  /\ coord.pc = "stopping"
  /\ isProcessingHistory' = FALSE
  /\ shouldStopHistory' = IF isProcessingHistory THEN FALSE ELSE shouldStopHistory
  /\ coord' = [coord EXCEPT !.pc = "halted"]
  /\ proc' = [p \in DOMAIN proc |-> ProcIdle]
  /\ conn' = [c \in Clients |-> IdleConn]
  /\ hist' = [hist EXCEPT !.stopped = {}]
  /\ UNCHANGED << utilVars, curEpoch, db, faults, failedAttempts, currentRound, listenerVars >>

(***************************************************************************)
(* The environment of the crawler: the chain and the listener's sweep.     *)
(***************************************************************************)
\* the contract starts the next round
ChainAdvance ==
  /\ curEpoch < MaxEpoch
  /\ curEpoch' = curEpoch + 1
  /\ UNCHANGED << utilVars, db, conn, faults, crawlerVars, currentRound, listenerVars, hist >>

\* the listener's StartRound handler: updateCurrentRoundInfo, then cleanupOldRealbet
\* on the listener's own client
HandleStartRound ==
  /\ currentRound < curEpoch
  /\ currentRound' = currentRound + 1
  /\ db' = Effect(DeleteBelow("realbet", currentRound' - KeepEpochs), db)
  /\ UNCHANGED << utilVars, curEpoch, conn, faults, crawlerVars, listenerVars, hist >>

\* processEpochData(epoch) called on its own (the test script, a manual run)
processEpochData(epoch) ==
  /\ proc["call"].pc = "idle"
  /\ proc' = [proc EXCEPT !["call"] =
       [ProcIdle EXCEPT !.pc = "skipCheck", !.epoch = epoch,
                        !.again = \E x \in db : x.t = "round" /\ x.epoch = epoch]]
  /\ UNCHANGED << utilVars, curEpoch, db, conn, faults, failedAttempts, isProcessingHistory,
                  shouldStopHistory, coord, currentRound, listenerVars, hist >>

\* processEpochRange(startEpoch, endEpoch), lines 1046-1053: epoch = startEpoch
processEpochRange(startEpoch, endEpoch) ==
  /\ proc["range"].pc = "idle"
  /\ proc' = [proc EXCEPT !["range"] =
       [ProcIdle EXCEPT !.pc = "rangeLoop", !.cur = startEpoch, !.i = endEpoch,
                        !.checkEpoch = startEpoch]]
  /\ UNCHANGED << utilVars, curEpoch, db, conn, faults, failedAttempts, isProcessingHistory,
                  shouldStopHistory, coord, currentRound, listenerVars, hist >>

\* processEpochRange that processes every epoch, stored or not
RangeLoopNoSkip ==
  /\ proc["range"].pc = "rangeLoop"
  /\ LET me == proc["range"]
     IN  /\ proc' = [proc EXCEPT !["range"] =
              IF me.checkEpoch <= me.i
              THEN [me EXCEPT !.pc = "skipCheck", !.epoch = me.checkEpoch]
              ELSE [me EXCEPT !.pc = "rangeDone"]]
         /\ UNCHANGED faults
  /\ UNCHANGED << utilVars, curEpoch, db, conn, failedAttempts, isProcessingHistory,
                  shouldStopHistory, coord, currentRound, listenerVars, hist >>

\* processEpochRange, lines 1053-1060: epoch <= endEpoch, hasRoundData and continue
\* (epoch++), or on to processEpochData
RangeLoop ==
  /\ proc["range"].pc = "rangeLoop"
  /\ LET me == proc["range"]
     IN  IF me.checkEpoch <= me.i
         THEN \E c \in Clients, failed \in QueryFails :
                /\ faults' = IF failed THEN faults - 1 ELSE faults
                /\ proc' = [proc EXCEPT !["range"] =
                     IF hasRoundDataResult(c, me.checkEpoch, failed)
                     THEN [me EXCEPT !.checkEpoch = @ + 1]
                     ELSE [me EXCEPT !.pc = "skipCheck", !.epoch = me.checkEpoch]]
         ELSE /\ proc' = [proc EXCEPT !["range"].pc = "rangeDone"]
              /\ UNCHANGED faults
  /\ UNCHANGED << utilVars, curEpoch, db, conn, failedAttempts, isProcessingHistory,
                  shouldStopHistory, coord, currentRound, listenerVars, hist >>

(***************************************************************************)
(* Initial states and the specifications of the crawler.                   *)
(***************************************************************************)
RealbetRow(epoch, wallet, direction) == Row("realbet", epoch, wallet, direction, "", 0, 0, 0)

BetKeys == {<< e, w >> : e \in Epochs, w \in {"0xa", "0xb"}}

\* saved: epochs whose saveCompleteRoundData returned true; hc: epochs whose realbet
\* rows the crawler deleted while no round row was stored; stopped: main loops that
\* were inside an epoch when the stop signal was raised; sent / ins: new_bet
\* broadcasts and realbet inserts per dedup key; dropped: the key of the repeated
\* event dropped last; locked: epochs whose LockRound was handled
HistInit ==
  [saved |-> {}, hc |-> {}, stopped |-> {},
   sent |-> [k \in BetKeys |-> 0], ins |-> [k \in BetKeys |-> 0],
   dropped |-> {}, locked |-> {}, unfinished |-> 0]

\* the realbet rows the listener has left for the rounds up to epoch
LiveRows(epoch) == {RealbetRow(e, "0xA", "UP") : e \in 1..epoch}

\* no call of findBlockByTimestamp under observation
NoSearch ==
  [pc |-> "idle", ts |-> << >>, target |-> 0, low |-> 0, high |-> 0,
   closestBlock |-> 0, closestDiff |-> 0, probed |-> << >>, result |-> 0]

\* no caller of rateLimit under observation
NoLimiter == [clock |-> 0, lastRequestTime |-> 0, callers |-> << >>]

\* no call of retryRequest under observation
NoRetry ==
  [pc |-> "idle", ops |-> << >>, attempt |-> 0, invoked |-> 0, limited |-> 0,
   waits |-> << >>, result |-> ""]

\* no Claim log under observation
NoIngest == [log |-> << >>, claim |-> {}, multi |-> {}, done |-> {}, last |-> 0]

\* no function call under observation
NoCall == [fn |-> "", args |-> << >>, pc |-> "idle", result |-> << >>]

\* no chain socket of the listener under observation
NoLink ==
  [reachable |-> TRUE, outages |-> 0, sock |-> << >>, provider |-> 0,
   attempt |-> [pc |-> "idle", s |-> 0], reconnectTimer |-> FALSE, subscribed |-> 0,
   status |-> "none", cleaned |-> FALSE]

\* a ConnectionManager after initialize(): pool and websocket connected
NoManager ==
  [dbConnected |-> TRUE, dbReachable |-> TRUE, dbOutages |-> 0,
   op |-> [fn |-> "", result |-> ""],
   wsConnected |-> TRUE, wsReachable |-> TRUE, wsOutages |-> 0, websocket |-> "open",
   reconnectAttempts |-> 0, reconnectTimer |-> FALSE]

\* senders as the chain client reports them, and the strings wallet_note is keyed by
Senders == {"0xA", "0xB"}
Addresses == Senders \cup {toLowerCase(w) : w \in Senders}
LiveEpochs == {LateEpoch, MaxEpoch}

NoNote == [flags |-> {}, bet |-> 0]
NoCheck == [wallet |-> "", amount |-> 0, epoch |-> 0, isSuspicious |-> FALSE, flags |-> {},
            totalBets |-> 0]

\* a listener that has seen no bet: empty SuspiciousWalletMonitor, empty wallet_note
NoMonitor ==
  [walletBetCounts |-> [w \in Senders |-> 0],
   walletBetAmounts |-> [w \in Senders |-> 0],
   recentBets |-> [w \in Senders |-> << >>],
   roundBetCounts |-> [k \in Senders \X LiveEpochs |-> 0],
   suspiciousWallets |-> {},
   clock |-> 0, calls |-> 0, log |-> << >>, check |-> NoCheck,
   handlers |-> {}, delivered |-> 0, sent |-> << >>,
   wallet_note |-> [a \in Addresses |-> NoNote]]

\* a crawler just constructed: no pool yet, dbHealthy never assigned, no detector
NoPools ==
  [dbPool |-> 0, created |-> 0, ending |-> {}, dbHealthy |-> "undefined",
   claimDetector |-> 0, multi_claims |-> {}, asked |-> {}]

\* the variables of the parts that are not under observation, at rest
UtilInit(observed) ==
  /\ IF observed = "search" THEN TRUE ELSE search = NoSearch
  /\ IF observed = "ingest" THEN TRUE ELSE ingest = NoIngest
  /\ IF observed = "retry" THEN TRUE ELSE retry = NoRetry
  /\ IF observed = "limiter" THEN TRUE ELSE limiter = NoLimiter
  /\ IF observed = "call" THEN TRUE ELSE call = NoCall
  /\ IF observed = "link" THEN TRUE ELSE link = NoLink
  /\ IF observed = "manager" THEN TRUE ELSE manager = NoManager
  /\ IF observed = "monitor" THEN TRUE ELSE monitor = NoMonitor
  /\ IF observed = "pools" THEN TRUE ELSE pools = NoPools

\* a step of the observed part leaves the system and the other parts alone
UtilFrame(observed) ==
  /\ UNCHANGED systemVars
  /\ IF observed = "search" THEN TRUE ELSE UNCHANGED search
  /\ IF observed = "ingest" THEN TRUE ELSE UNCHANGED ingest
  /\ IF observed = "retry" THEN TRUE ELSE UNCHANGED retry
  /\ IF observed = "limiter" THEN TRUE ELSE UNCHANGED limiter
  /\ IF observed = "call" THEN TRUE ELSE UNCHANGED call
  /\ IF observed = "link" THEN TRUE ELSE UNCHANGED link
  /\ IF observed = "manager" THEN TRUE ELSE UNCHANGED manager
  /\ IF observed = "monitor" THEN TRUE ELSE UNCHANGED monitor
  /\ IF observed = "pools" THEN TRUE ELSE UNCHANGED pools

SystemInit(nconn, nfaults, epoch, store) ==
  /\ curEpoch = epoch
  /\ db = store
  /\ conn = [c \in 1..nconn |-> IdleConn]
  /\ faults = nfaults
  /\ failedAttempts = [e \in Epochs |-> 0]
  /\ isProcessingHistory = FALSE
  /\ shouldStopHistory = FALSE
  /\ proc = [p \in Workers |-> ProcIdle]
  /\ coord = [pc |-> "boot", cur |-> 0, j |-> 0, ticks |-> 0]
  /\ currentRound = epoch
  /\ processedBets = {}
  /\ now = 0
  /\ isConnected = TRUE
  /\ inflight = {}
  /\ hist = HistInit

InitWith(nconn, nfaults, epoch, store) ==
  /\ SystemInit(nconn, nfaults, epoch, store)
  /\ UtilInit("")


MainStep(p) ==
  \/ HistoryGetEpoch(p)
  \/ HistoryLoop(p)
  \/ HistoryAfterEpoch(p)

EpochStep(p) ==
  \/ SkipCheck(p)
  \/ Fetch(p)
  \/ ExecStmt(p)
  \/ Cleanup(p)
  \/ Detect(p)
  \/ handleEpochFailure(p)

FaultStep(p) ==
  \/ ExecStmtFails(p)
  \/ Rollback(p)
  \/ SaveFailed(p)

RestartStep ==
  \/ startPeriodicTasks
  \/ GracefulBegin
  \/ Drain
  \/ Validate
  \/ validateRealbetCleanup
  \/ RestartTimer

\* the daemon: main loop and side scan over the pool, with failing chain requests
\* and failing statements
Next ==
  \/ startPeriodicTasks
  \/ \E p \in MainLoops : MainStep(p)
  \/ processLatestData
  \/ SideLoop
  \/ \E p \in MainLoops \cup {"side"} : EpochStep(p) \/ FaultStep(p)

\* the main loop and its periodic graceful restart
NextBackfill ==
  \/ \E p \in MainLoops : MainStep(p) \/ EpochStep(p)
  \/ RestartStep

\* the main loop, its restarts and the shutdown signal
NextRestart ==
  \/ NextBackfill
  \/ Sigint
  \/ StopWait

\* processEpochData called directly, one call after the other
NextCall ==
  \/ \E epoch \in Epochs : processEpochData(epoch)
  \/ EpochStep("call")
  \/ ChainAdvance
  \/ HandleStartRound

Init == InitWith(NConn, MaxFaults, InitEpoch, LiveRows(InitEpoch))
InitPinned == InitWith(1, MaxFaults, InitEpoch, LiveRows(InitEpoch))
InitCall == InitWith(1, 0, InitEpoch, LiveRows(InitEpoch))
InitRestart == InitWith(1, 0, LateEpoch, LiveRows(LateEpoch))

Spec == Init /\ [][Next]_vars
SpecPinned == InitPinned /\ [][Next]_vars
SpecCall == InitCall /\ [][NextCall]_vars

\* processEpochData called directly while chain requests fail, often enough to use up
\* the attempts of one epoch
InitFaulty == InitWith(1, MaxFailedAttempts, InitEpoch, LiveRows(InitEpoch))

SpecFaulty == InitFaulty /\ [][NextCall]_vars
SpecBackfill == InitRestart /\ [][NextBackfill]_vars
SpecRestart == InitRestart /\ [][NextRestart]_vars

\* the event loop does not stand still while a continuation or a timer is pending
Fairness == WF_vars(NextBackfill)

\* the main loop and its restarts from the start of the daemon, with failing chain
\* requests and no live bet buffered
InitFair == InitWith(1, MaxFaults, InitEpoch, {})

FairBackfill == InitFair /\ [][NextBackfill]_vars /\ Fairness

\* the rows a successful processEpochData(e) has committed
SavedEpoch(e, cur) ==
  LET range == blockRange(e, cur)
      roundData == getRoundData(e, cur)
      events == getEventsInRange(range.fromBlock, range.toBlock, FALSE)
      betData == processBetEvents(events.betBullEvents, "UP", roundData.result)
                   \o processBetEvents(events.betBearEvents, "DOWN", roundData.result)
      q == saveStatements(roundData, betData, processClaimEvents(events.claimEvents, e))
  IN  {q[k].row : k \in 2..Len(q)}

\* one run of the main loop from the newest closed epoch down, that epoch being
\* stored already, with failing requests and no restart
NextHistory ==
  \/ startPeriodicTasks
  \/ \E p \in MainLoops : MainStep(p) \/ EpochStep(p) \/ FaultStep(p)

InitHistory ==
  InitWith(1, MaxFaults, MaxEpoch, SavedEpoch(MaxEpoch - StartOffset, MaxEpoch))

FairHistory == InitHistory /\ [][NextHistory]_vars /\ WF_vars(NextHistory)

\* one run of processEpochRange over any interval of epochs, the oldest epoch being
\* stored already, with failing requests
NextRange ==
  \/ \E startEpoch, endEpoch \in Epochs : processEpochRange(startEpoch, endEpoch)
  \/ RangeLoop
  \/ EpochStep("range")
  \/ FaultStep("range")

InitRange == InitWith(1, MaxFaults, MaxEpoch, SavedEpoch(1, MaxEpoch))

FairRange == InitRange /\ [][NextRange]_vars /\ WF_vars(NextRange)

(***************************************************************************)
(* The realtime listener: live bets, the dedup map, realbet, the fan-out.  *)
(* The listener holds one pg Client of its own, so its statements commit   *)
(* one by one.                                                             *)
(***************************************************************************)
BetEpochs == {e \in Epochs : LateEpoch <= e /\ e <= curEpoch}

betKey(epoch, sender) == << epoch, toLowerCase(sender) >>

processedBetsHas(key) == \E r \in processedBets : r.key = key

\* the bets the chain has logged for the rounds the listener follows, as
\* << sender, epoch, direction >>
RECURSIVE SeqToSet(_)
SeqToSet(q) == IF q = << >> THEN {} ELSE {Head(q)} \cup SeqToSet(Tail(q))

LiveBets ==
  {<< ev.sender, ev.epoch, "UP" >> :
     ev \in {x \in SeqToSet(LogOf("BetBull", MaxEpoch)) : x.epoch \in BetEpochs}}
  \cup {<< ev.sender, ev.epoch, "DOWN" >> :
     ev \in {x \in SeqToSet(LogOf("BetBear", MaxEpoch)) : x.epoch \in BetEpochs}}

\* saveBetToDatabase: INSERT INTO realbet (no conflict target: every insert adds a row)
saveBetToDatabase(epoch, sender, direction) ==
  Effect(Insert(RealbetRow(epoch, sender, direction)), db)

DedupDropped(sender, epoch, direction) ==
  /\ processedBetsHas(betKey(epoch, sender))
  /\ hist' = [hist EXCEPT !.dropped = {betKey(epoch, sender)}]
  /\ UNCHANGED << processedBets, inflight >>

\* handleBetEvent without the lookup in processedBets
handleBetEventNoDedup(sender, epoch, direction) ==
  /\ isConnected
  /\ << sender, epoch, direction >> \notin inflight
  /\ LET key == betKey(epoch, sender)
     IN  /\ hist.sent[key] < MaxSends
         /\ processedBets' = processedBets \cup {[key |-> key, ts |-> now]}
         /\ inflight' = inflight \cup {<< sender, epoch, direction >>}
         /\ hist' = [hist EXCEPT !.sent[key] = @ + 1]
  /\ UNCHANGED << utilVars, curEpoch, db, conn, faults, crawlerVars, currentRound, now, isConnected >>

\* handleBetEvent that goes to saveBetToDatabase before notifyFrontendImmediately
handleBetEventSaveFirst(sender, epoch, direction) ==
  /\ isConnected
  /\ LET key == betKey(epoch, sender)
     IN  \/ DedupDropped(sender, epoch, direction)
         \/ /\ ~processedBetsHas(key)
            /\ hist.sent[key] < MaxSends
            /\ << sender, epoch, direction >> \notin inflight
            /\ processedBets' = processedBets \cup {[key |-> key, ts |-> now]}
            /\ inflight' = inflight \cup {<< sender, epoch, direction >>}
            /\ hist' = hist
  /\ UNCHANGED << utilVars, curEpoch, db, conn, faults, crawlerVars, currentRound, now, isConnected >>

\* handleBetEvent, lines 665-700: the dedup check, the entry in processedBets, the
\* broadcast of new_bet; the call then awaits saveBetToDatabase
handleBetEvent(sender, epoch, direction) ==
  /\ isConnected
  /\ LET key == betKey(epoch, sender)
     IN  \/ DedupDropped(sender, epoch, direction)
         \/ /\ ~processedBetsHas(key)
            /\ hist.sent[key] < MaxSends
            /\ << sender, epoch, direction >> \notin inflight
            /\ processedBets' = processedBets \cup {[key |-> key, ts |-> now]}
            /\ inflight' = inflight \cup {<< sender, epoch, direction >>}
            /\ hist' = [hist EXCEPT !.sent[key] = @ + 1]
  /\ UNCHANGED << utilVars, curEpoch, db, conn, faults, crawlerVars, currentRound, now, isConnected >>

\* handleBetEvent, lines 702-706: the awaited INSERT into realbet settles; when it
\* rejects, saveBetToDatabase rethrows and the catch of handleBetEvent logs
PersistBet(sender, epoch, direction) ==
  /\ << sender, epoch, direction >> \in inflight
  /\ inflight' = inflight \ {<< sender, epoch, direction >>}
  /\ \E failed \in {FALSE, faults > 0} :
       /\ faults' = IF failed THEN faults - 1 ELSE faults
       /\ db' = IF failed THEN db ELSE saveBetToDatabase(epoch, sender, direction)
       /\ hist' = [hist EXCEPT !.ins[betKey(epoch, sender)] = IF failed THEN @ ELSE @ + 1]
  /\ UNCHANGED << utilVars, curEpoch, conn, crawlerVars, currentRound, processedBets, now,
                  isConnected >>

\* the LockRound handler: updateCurrentRoundInfo(epoch + 1) when the current round
\* locks, then clearMemoryForEpoch(epoch)
HandleLockRound(epoch) ==
  /\ isConnected
  /\ epoch < curEpoch
  /\ currentRound' = IF epoch = currentRound THEN epoch + 1 ELSE currentRound
  /\ processedBets' = {r \in processedBets : r.key[1] # epoch}
  /\ hist' = [hist EXCEPT !.locked = @ \cup {epoch}]
  /\ UNCHANGED << utilVars, curEpoch, db, conn, faults, crawlerVars, now, isConnected, inflight >>

\* cleanupProcessedBets, run by the hourly timer: entries older than one hour go
cleanupProcessedBets ==
  /\ \E r \in processedBets : r.ts < now - HourTicks
  /\ processedBets' = {r \in processedBets : ~(r.ts < now - HourTicks)}
  /\ UNCHANGED << utilVars, curEpoch, db, conn, faults, crawlerVars, currentRound, now,
                  isConnected, inflight, hist >>

\* half an hour passes
Tick ==
  /\ now < MaxTime
  /\ now' = now + 1
  /\ UNCHANGED << utilVars, curEpoch, db, conn, faults, crawlerVars, currentRound,
                  processedBets, isConnected, inflight, hist >>

\* the websocket closes
ConnectionClosed ==
  /\ isConnected
  /\ isConnected' = FALSE
  /\ UNCHANGED << utilVars, curEpoch, db, conn, faults, crawlerVars, currentRound, processedBets,
                  now, inflight, hist >>

\* scheduleReconnect fires: startBlockchainListener, loadCurrentRoundInfo
startBlockchainListener ==
  /\ ~isConnected
  /\ isConnected' = TRUE
  /\ currentRound' = curEpoch
  /\ UNCHANGED << utilVars, curEpoch, db, conn, faults, crawlerVars, processedBets, now, inflight,
                  hist >>

\* the listener process is started again: the dedup map is empty but for what
\* restoreFromRealbet finds in realbet
restoreFromRealbet ==
  /\ processedBets' = {[key |-> betKey(x.epoch, x.wallet), ts |-> now] :
                         x \in {y \in db : y.t = "realbet"}}
  /\ processedBets' # processedBets
  /\ isConnected' = TRUE
  /\ currentRound' = curEpoch
  /\ inflight' = {}
  /\ UNCHANGED << utilVars, curEpoch, db, conn, faults, crawlerVars, now, hist >>

NextLive ==
  \/ \E bet \in LiveBets : handleBetEvent(bet[1], bet[2], bet[3])
  \/ \E bet \in inflight : PersistBet(bet[1], bet[2], bet[3])
  \/ \E epoch \in BetEpochs : HandleLockRound(epoch)
  \/ ChainAdvance
  \/ cleanupProcessedBets
  \/ Tick
  \/ ConnectionClosed
  \/ startBlockchainListener
  \/ restoreFromRealbet

InitLive == InitWith(1, MaxFaults, LateEpoch, {})

SpecLive == InitLive /\ [][NextLive]_vars

(***************************************************************************)
(* The listener's chain connection.  Every call of startBlockchainListener *)
(* makes a new WebSocketProvider, whose socket keeps the open, close and   *)
(* error handlers of setupConnectionEvents for as long as it lives; a      *)
(* socket that was given up by the connection timeout is not destroyed.    *)
(* The reconnect delay is as long as the connection timeout, so the timer  *)
(* does not fire while an attempt waits for its socket.                    *)
(***************************************************************************)
Sockets == 1..MaxSockets

\* every step of the connection leaves the rest of the listener and the crawler alone
LinkFrame ==
  UNCHANGED << curEpoch, db, conn, faults, crawlerVars, currentRound, processedBets, now,
               inflight, hist, search, ingest, retry, limiter, call, manager, monitor, pools >>

\* scheduleReconnect: clearTimeout, then setTimeout(startBlockchainListener, RECONNECT_DELAY)
scheduleReconnect(l) == [l EXCEPT !.reconnectTimer = TRUE]

\* notifyConnectionStatus: the connection_status broadcast
notifyConnectionStatus(l, connected) == [l EXCEPT !.status = IF connected THEN "true" ELSE "false"]

\* the chain endpoint becomes unreachable
EndpointDown ==
  /\ link.reachable
  /\ link.outages < MaxOutages
  /\ link' = [link EXCEPT !.reachable = FALSE, !.outages = @ + 1]
  /\ UNCHANGED isConnected
  /\ LinkFrame

\* the chain endpoint is reachable again
EndpointUp ==
  /\ ~link.reachable
  /\ link' = [link EXCEPT !.reachable = TRUE]
  /\ UNCHANGED isConnected
  /\ LinkFrame

\* websocket.on('close') of an open socket
SocketClose(s) ==
  /\ link.sock[s] = "open"
  /\ ~link.reachable
  /\ isConnected' = FALSE
  /\ link' = scheduleReconnect(notifyConnectionStatus([link EXCEPT !.sock[s] = "closed"], FALSE))
  /\ LinkFrame

\* the reconnect timer fires: startBlockchainListener up to waitForConnection
ReconnectTimer ==
  /\ link.reconnectTimer
  /\ link.attempt.pc = "idle"
  /\ IF isConnected
     THEN link' = [link EXCEPT !.reconnectTimer = FALSE]
     ELSE \E s \in Sockets :
            /\ link.sock[s] = "closed"
            /\ link' = [link EXCEPT !.reconnectTimer = FALSE, !.sock[s] = "connecting",
                                    !.provider = s, !.attempt = [pc |-> "waiting", s |-> s]]
  /\ UNCHANGED isConnected
  /\ LinkFrame

\* websocket.on('open'): the handler of setupConnectionEvents and, while the attempt
\* waits for this socket, the one of waitForConnection
SocketOpen(s) ==
  /\ link.sock[s] = "connecting"
  /\ link.reachable
  /\ isConnected' = TRUE
  /\ link' = [link EXCEPT !.sock[s] = "open",
                          !.attempt = IF @ = [pc |-> "waiting", s |-> s]
                                      THEN [pc |-> "loading", s |-> s] ELSE @]
  /\ LinkFrame

\* websocket.on('error') and the close that follows it: the handlers of
\* setupConnectionEvents and, while the attempt waits for this socket, the rejection
\* of waitForConnection with the catch block of startBlockchainListener
SocketError(s) ==
  /\ link.sock[s] = "connecting"
  /\ ~link.reachable
  /\ isConnected' = FALSE
  /\ link' = scheduleReconnect(notifyConnectionStatus(
               [link EXCEPT !.sock[s] = "closed",
                            !.attempt = IF @ = [pc |-> "waiting", s |-> s]
                                        THEN [pc |-> "idle", s |-> 0] ELSE @], FALSE))
  /\ LinkFrame

\* waitForConnection: CONNECTION_TIMEOUT passes before the socket opens or fails; the
\* catch block of startBlockchainListener
ConnectionTimeout ==
  /\ link.attempt.pc = "waiting"
  /\ isConnected' = FALSE
  /\ link' = scheduleReconnect([link EXCEPT !.attempt = [pc |-> "idle", s |-> 0]])
  /\ LinkFrame

\* startBlockchainListener after waitForConnection: loadCurrentRoundInfo,
\* setupBlockchainEvents on this.contract, notifyConnectionStatus(true)
Subscribe ==
  /\ link.attempt.pc = "loading"
  /\ link' = notifyConnectionStatus([link EXCEPT !.subscribed = link.provider,
                                                 !.attempt = [pc |-> "idle", s |-> 0]], TRUE)
  /\ UNCHANGED isConnected
  /\ LinkFrame

NextReconnect ==
  \/ EndpointDown
  \/ EndpointUp
  \/ \E s \in Sockets : SocketClose(s) \/ SocketOpen(s) \/ SocketError(s)
  \/ ReconnectTimer
  \/ ConnectionTimeout
  \/ Subscribe

\* the listener connected and subscribed on its first socket
InitReconnect ==
  /\ SystemInit(1, 0, LateEpoch, {})
  /\ UtilInit("link")
  /\ link = [NoLink EXCEPT !.sock = [s \in Sockets |-> IF s = 1 THEN "open" ELSE "closed"],
                           !.provider = 1, !.subscribed = 1, !.status = "true"]

\* timers fire, sockets open or fail, and awaited calls return
FairReconnect ==
  /\ InitReconnect
  /\ [][NextReconnect]_vars
  /\ WF_vars(EndpointUp)
  /\ WF_vars(ReconnectTimer)
  /\ WF_vars(Subscribe)
  /\ \A s \in Sockets : WF_vars(SocketClose(s)) /\ WF_vars(SocketOpen(s)) /\ WF_vars(SocketError(s))

(***************************************************************************)
(* V6RealtimeListener.cleanup().  provider.destroy() closes the socket of  *)
(* this.provider; the handlers of setupConnectionEvents stay on it.  The   *)
(* socket emits its close event either before destroy() returns or in a    *)
(* later turn of the event loop.  cleanup() touches no socket but that of  *)
(* this.provider and no timer but reconnectTimer.                          *)
(***************************************************************************)
\* cleanup(): removeAllListeners, destroy, clearTimeout(reconnectTimer), the
\* processedBets map cleared, isConnected = false
ListenerCleanup(closeInDestroy) ==
  /\ ~link.cleaned
  /\ LET s == link.provider
         live == s \in Sockets /\ link.sock[s] \in {"open", "connecting"}
         unsubscribed == [link EXCEPT !.subscribed = 0, !.cleaned = TRUE]
         destroyed ==
           IF ~live THEN unsubscribed
           ELSE IF closeInDestroy
           THEN scheduleReconnect(notifyConnectionStatus(
                  [unsubscribed EXCEPT !.sock[s] = "closed",
                                       !.attempt = IF @ = [pc |-> "waiting", s |-> s]
                                                   THEN [pc |-> "idle", s |-> 0] ELSE @],
                  FALSE))
           ELSE [unsubscribed EXCEPT !.sock[s] = "closing"]
     IN  link' = [destroyed EXCEPT !.reconnectTimer = FALSE]
  /\ processedBets' = {}
  /\ isConnected' = FALSE
  /\ UNCHANGED << curEpoch, db, conn, faults, crawlerVars, currentRound, now, inflight, hist,
                  search, ingest, retry, limiter, call, manager, monitor, pools >>

\* websocket.on('close') of the destroyed socket, with the error that precedes it
\* while an attempt waits for this socket
DestroyedSocketClose(s) ==
  /\ link.sock[s] = "closing"
  /\ isConnected' = FALSE
  /\ link' = scheduleReconnect(notifyConnectionStatus(
               [link EXCEPT !.sock[s] = "closed",
                            !.attempt = IF @ = [pc |-> "waiting", s |-> s]
                                        THEN [pc |-> "idle", s |-> 0] ELSE @], FALSE))
  /\ LinkFrame

NextShutdown ==
  \/ EndpointDown
  \/ EndpointUp
  \/ \E s \in Sockets : SocketClose(s) \/ SocketOpen(s) \/ SocketError(s)
  \/ ReconnectTimer
  \/ ConnectionTimeout
  \/ Subscribe
  \/ \E closeInDestroy \in BOOLEAN : ListenerCleanup(closeInDestroy)
  \/ \E s \in Sockets : DestroyedSocketClose(s)

SpecShutdown == InitReconnect /\ [][NextShutdown]_vars

(***************************************************************************)
(* findBlockByTimestamp, one action per awaited getBlock: the chain is any *)
(* sequence of block timestamps that never decreases, blocks are numbered  *)
(* from 1 and the head is the last one.  getBlock(mid) answers for every   *)
(* mid in [1, currentBlock], so the branch for a missing block is not      *)
(* taken.                                                                  *)
(***************************************************************************)
Chains ==
  UNION {{ts \in [1..n -> 0..MaxTs] : \A i \in 1..(n - 1) : ts[i] <= ts[i + 1]} :
           n \in 1..MaxBlocks}

\* if (diff < closestDiff): never taken
CloserNever(diff, closestDiff) == FALSE

\* if (diff < closestDiff)
Closer(diff, closestDiff) == diff < closestDiff

\* the head is read; a target at or beyond it returns the head, else the bisection starts
findBlockHead ==
  /\ search.pc = "start"
  /\ LET currentBlock == Len(search.ts)
         currentTimestamp == search.ts[currentBlock]
     IN  search' =
           IF search.target >= currentTimestamp
             THEN [search EXCEPT !.pc = "done", !.result = currentBlock]
             ELSE [search EXCEPT !.pc = "loop", !.low = 1, !.high = currentBlock,
                                 !.closestBlock = currentBlock,
                                 !.closestDiff = Abs(currentTimestamp - search.target)]
  /\ UtilFrame("search")

\* one turn of while (low <= high), and return closestBlock when the loop ends
findBlockProbe ==
  /\ search.pc = "loop"
  /\ search.low <= search.high
  /\ LET mid == (search.low + search.high) \div 2
         blockTimestamp == search.ts[mid]
         diff == Abs(blockTimestamp - search.target)
         closer == Closer(diff, search.closestDiff)
         cb == IF closer THEN mid ELSE search.closestBlock
         cd == IF closer THEN diff ELSE search.closestDiff
         low == IF blockTimestamp < search.target THEN mid + 1 ELSE search.low
         high == IF blockTimestamp > search.target THEN mid - 1 ELSE search.high
         probed == Append(search.probed, mid)
     IN  search' =
           IF blockTimestamp = search.target
             THEN [search EXCEPT !.pc = "done", !.result = mid, !.probed = probed,
                                 !.closestBlock = cb, !.closestDiff = cd]
           ELSE IF low > high
             THEN [search EXCEPT !.pc = "done", !.result = cb, !.probed = probed,
                                 !.low = low, !.high = high,
                                 !.closestBlock = cb, !.closestDiff = cd]
           ELSE [search EXCEPT !.probed = probed, !.low = low, !.high = high,
                               !.closestBlock = cb, !.closestDiff = cd]
  /\ UtilFrame("search")

NextSearch ==
  \/ findBlockHead
  \/ findBlockProbe

\* one call of findBlockByTimestamp for every chain and every target timestamp
InitSearch ==
  /\ SystemInit(1, 0, InitEpoch, {})
  /\ UtilInit("search")
  /\ \E ts \in Chains, t \in 0..(MaxTs + 1) :
       search = [NoSearch EXCEPT !.pc = "start", !.ts = ts, !.target = t]

SpecSearch == InitSearch /\ [][NextSearch]_vars

(***************************************************************************)
(* The block window of an epoch and the claim and multi_claims rows stored *)
(* from it, for Claim events mined in any block of the chain and the       *)
(* closed epochs processed in any order, any number of times.              *)
(***************************************************************************)
InRange(block, epoch, cur) ==
  /\ blockRange(epoch, cur).fromBlock <= block
  /\ block <= blockRange(epoch, cur).toBlock

\* the epochs getRoundData returns a round for
ClosedEpochs(cur) == {e \in Epochs : getRoundData(e, cur).ok}

\* one Claim event, mined in any block up to the head, for a bet of any closed epoch
ClaimLogs ==
  {<< [epoch |-> e, sender |-> "0xA", amount |-> 5, tx |-> 1, block |-> b] >> :
     e \in ClosedEpochs(MaxEpoch), b \in 1..getBlockNumber(MaxEpoch)}

RECURSIVE insertClaims(_, _)
\* saveCompleteRoundData: for (const claim of claimData) INSERT ... ON CONFLICT (tx_hash)
\* DO NOTHING
insertClaims(table, claimData) ==
  IF Len(claimData) = 0 THEN table
  ELSE insertClaims(IF Conflicts(Head(claimData), table) THEN table
                    ELSE table \cup {Head(claimData)},
                    Tail(claimData))

\* processEpochData(epoch) as far as claim and multi_claims go: the Claim events of the
\* epoch's window, stamped by processClaimEvents, inserted, then handed to the detector
ingestClaims(epoch) ==
  /\ epoch \in ClosedEpochs(MaxEpoch)
  /\ Len(ingest.log) > 0
  /\ LET range == blockRange(epoch, MaxEpoch)
         events == SelectSeq(ingest.log, LAMBDA ev : range.fromBlock <= ev.block
                                                      /\ ev.block <= range.toBlock)
         claimData == processClaimEvents(events, epoch)
     IN  ingest' = [ingest EXCEPT
                      !.claim = insertClaims(@, claimData),
                      !.multi = recordSuspiciousWallets(
                                  @, checkSingleRoundMultiClaims(epoch, claimData)),
                      !.done = @ \cup {epoch},
                      !.last = epoch]
  /\ UtilFrame("ingest")

NextWindow == \E epoch \in Epochs : ingestClaims(epoch)

InitWindow ==
  /\ SystemInit(1, 0, MaxEpoch, {})
  /\ UtilInit("ingest")
  /\ \E log \in ClaimLogs : ingest = [NoIngest EXCEPT !.log = log]

SpecWindow == InitWindow /\ [][NextWindow]_vars

\* three or four Claim events of one wallet, the k-th for the bet of epoch k, each in
\* one of two transactions, all mined in the block of the bets of epoch 1 or all in
\* the block in which epoch 2 starts
WalletClaimLogs ==
  UNION {{[k \in 1..n |-> [epoch |-> k, sender |-> "0xA", amount |-> 5,
                           tx |-> txs[k], block |-> b]] :
            txs \in [1..n -> 1..2], b \in {StartBlock(1) + 1, StartBlock(2)}} :
          n \in (MaxClaims - 1)..MaxClaims}

InitDetect ==
  /\ SystemInit(1, 0, MaxEpoch, {})
  /\ UtilInit("ingest")
  /\ \E log \in WalletClaimLogs : ingest = [NoIngest EXCEPT !.log = log]

SpecDetect == InitDetect /\ [][NextWindow]_vars

(***************************************************************************)
(* retryRequest, one action per await.  The operation is given by the      *)
(* outcome of each of its invocations: a value it resolves with or an      *)
(* error it rejects with.                                                  *)
(***************************************************************************)
Outcomes ==
  {[ok |-> TRUE, val |-> "r1"], [ok |-> TRUE, val |-> "r2"],
   [ok |-> FALSE, val |-> "e1"], [ok |-> FALSE, val |-> "e2"]}

\* const delay = 2000: the same wait after every failed attempt
delayFlat(attempt) == 2000

\* const delay = 2000 * attempt
delay(attempt) == 2000 * attempt

\* await this.rateLimit()
retryRateLimit ==
  /\ retry.pc = "limit"
  /\ retry' = [retry EXCEPT !.pc = "call", !.limited = @ + 1]
  /\ UtilFrame("retry")

\* await operation(): return result, or catch: throw on the last attempt, else wait
retryOperation ==
  /\ retry.pc = "call"
  /\ LET outcome == retry.ops[retry.invoked + 1]
     IN  retry' =
           IF outcome.ok
             THEN [retry EXCEPT !.pc = "returned", !.invoked = @ + 1, !.result = outcome.val]
           ELSE IF retry.attempt = retries
             THEN [retry EXCEPT !.pc = "thrown", !.invoked = @ + 1, !.result = outcome.val]
           ELSE [retry EXCEPT !.pc = "wait", !.invoked = @ + 1]
  /\ UtilFrame("retry")

\* await new Promise(resolve => setTimeout(resolve, delay)), then attempt++
retryDelay ==
  /\ retry.pc = "wait"
  /\ retry' = [retry EXCEPT !.pc = "limit", !.waits = Append(@, delay(retry.attempt)),
                            !.attempt = @ + 1]
  /\ UtilFrame("retry")

NextRetry ==
  \/ retryRateLimit
  \/ retryOperation
  \/ retryDelay

\* one call of retryRequest for every sequence of outcomes of the operation
InitRetry ==
  /\ SystemInit(1, 0, InitEpoch, {})
  /\ UtilInit("retry")
  /\ \E ops \in [1..retries -> Outcomes] :
       retry = [NoRetry EXCEPT !.pc = "limit", !.ops = ops, !.attempt = 1]

SpecRetry == InitRetry /\ [][NextRetry]_vars

(***************************************************************************)
(* rateLimit and its concurrent callers: the three event queries that      *)
(* getEventsInRange starts together.  Time is in milliseconds; a timer     *)
(* fires at its due time or later.                                         *)
(***************************************************************************)
Callers == {"BetBull", "BetBear", "Claim"}

\* rateLimit up to its await: the caller passes at once when requestDelay has elapsed
\* since lastRequestTime, else it sets a timer for the rest of the delay
rateLimitEnter(c) ==
  /\ limiter.callers[c].pc = "idle"
  /\ LET timeSinceLastRequest == limiter.clock - limiter.lastRequestTime
     IN  limiter' =
           IF timeSinceLastRequest < requestDelay
             THEN [limiter EXCEPT
                     !.callers[c] = [pc |-> "sleep",
                                     at |-> limiter.clock + (requestDelay - timeSinceLastRequest)]]
             ELSE [limiter EXCEPT
                     !.lastRequestTime = limiter.clock,
                     !.callers[c] = [pc |-> "request", at |-> limiter.clock]]
  /\ UtilFrame("limiter")

\* the timer fires: this.lastRequestTime = Date.now(), and the request starts
rateLimitWake(c) ==
  /\ limiter.callers[c].pc = "sleep"
  /\ limiter.clock >= limiter.callers[c].at
  /\ limiter' = [limiter EXCEPT
                   !.lastRequestTime = limiter.clock,
                   !.callers[c] = [pc |-> "request", at |-> limiter.clock]]
  /\ UtilFrame("limiter")

\* a millisecond passes
ClockTick ==
  /\ limiter.callers # << >>
  /\ limiter.clock < MaxClock
  /\ limiter' = [limiter EXCEPT !.clock = @ + 1]
  /\ UtilFrame("limiter")

NextLimiter ==
  \/ \E c \in Callers : rateLimitEnter(c) \/ rateLimitWake(c)
  \/ ClockTick

\* the previous request lies requestDelay or more in the past, or less than that
InitLimiter ==
  /\ SystemInit(1, 0, InitEpoch, {})
  /\ UtilInit("limiter")
  /\ \E last \in 0..requestDelay :
       limiter = [clock |-> requestDelay, lastRequestTime |-> last,
                  callers |-> [c \in Callers |-> [pc |-> "idle", at |-> 0]]]

SpecLimiter == InitLimiter /\ [][NextLimiter]_vars

(***************************************************************************)
(* validateDataIntegrity and what processEpochData does with its answer,   *)
(* for the round data of every closed epoch (won by UP, won by DOWN,       *)
(* drawn) or none, any number of UP and of DOWN bets and a claim list that *)
(* is empty or not.                                                        *)
(***************************************************************************)
BetEvents(n, tx0) ==
  [k \in 1..n |-> [epoch |-> 1, sender |-> "0xA", amount |-> 6, tx |-> tx0 + k, block |-> 2]]

ValidateInputs ==
  {[roundData |-> roundData,
    betData   |-> processBetEvents(BetEvents(up, 0), "UP", roundData.result)
                    \o processBetEvents(BetEvents(down, MaxBets), "DOWN", roundData.result),
    claimData |-> processClaimEvents(BetEvents(claims, 2 * MaxBets), 1)] :
     roundData \in {NoRoundData} \cup {getRoundData(e, MaxEpoch) : e \in ClosedEpochs(MaxEpoch)},
     up \in 0..MaxBets, down \in 0..MaxBets, claims \in 0..1}

\* processEpochData: validation, then saveCompleteRoundData or handleEpochFailure
validateAndBranch ==
  /\ call.fn = "validateDataIntegrity"
  /\ call.pc = "start"
  /\ LET valid == validateDataIntegrity(call.args.roundData.epoch, call.args.roundData,
                                        call.args.betData, call.args.claimData)
     IN  call' = [call EXCEPT
                    !.pc = "done",
                    !.result = [valid |-> valid,
                                next  |-> IF valid THEN "saveCompleteRoundData"
                                          ELSE "handleEpochFailure"]]
  /\ UtilFrame("call")

NextValidate == validateAndBranch

InitValidate ==
  /\ SystemInit(1, 0, MaxEpoch, {})
  /\ UtilInit("call")
  /\ \E args \in ValidateInputs :
       call = [NoCall EXCEPT !.fn = "validateDataIntegrity", !.args = args, !.pc = "start"]

SpecValidate == InitValidate /\ [][NextValidate]_vars

(***************************************************************************)
(* calculatePayouts applied to every total and every pair of side amounts. *)
(***************************************************************************)
calculatePayoutsCall ==
  /\ call.fn = "calculatePayouts"
  /\ call.pc = "start"
  /\ call' = [call EXCEPT
                !.pc = "done",
                !.result = calculatePayouts(call.args[1], call.args[2], call.args[3])]
  /\ UtilFrame("call")

NextPayouts == calculatePayoutsCall

InitPayouts ==
  /\ SystemInit(1, 0, MaxEpoch, {})
  /\ UtilInit("call")
  /\ \E total \in 0..MaxAmount, upAmount \in 0..MaxAmount, downAmount \in 0..MaxAmount :
       call = [NoCall EXCEPT !.fn = "calculatePayouts",
                             !.args = << total, upAmount, downAmount >>,
                             !.pc = "start"]

SpecPayouts == InitPayouts /\ [][NextPayouts]_vars

(***************************************************************************)
(* processEpochData, lines 648-680: the two timestamps handed to the block *)
(* search, in a process whose local time zone is call.args[3].             *)
(***************************************************************************)
searchTimestamps(epoch, cur, offset) ==
  LET roundData == getRoundData(epoch, cur)
      nextEpochStartTime == getNextEpochStartTime(epoch + 1, cur)
  IN  [currentStartTime |-> parseIn(roundData.start_ts, offset),
       nextStartTime |-> nextEpochStartTime]

searchTimestampsCall ==
  /\ call.fn = "searchTimestamps"
  /\ call.pc = "start"
  /\ call' = [call EXCEPT
                !.pc = "done",
                !.result = searchTimestamps(call.args[1], call.args[2], call.args[3])]
  /\ UtilFrame("call")

NextZone == searchTimestampsCall

\* every closed epoch of every chain length, in every process time zone
InitZone ==
  /\ SystemInit(1, 0, MaxEpoch, {})
  /\ UtilInit("call")
  /\ \E cur \in 1..(MaxEpoch + StartOffset), offset \in ProcessZones :
       \E epoch \in ClosedEpochs(cur) :
         call = [NoCall EXCEPT !.fn = "searchTimestamps",
                               !.args = << epoch, cur, offset >>,
                               !.pc = "start"]

SpecZone == InitZone /\ [][NextZone]_vars

(***************************************************************************)
(* clearMemoryForEpoch, run by the LockRound handler, over the keys of the *)
(* dedup map as the strings they are: a string is a sequence of characters,*)
(* a wallet address one character of it.                                   *)
(***************************************************************************)
\* epoch.toString(): the decimal digits
RECURSIVE toString(_)
toString(n) ==
  LET digit(d) == << "0", "1", "2", "3", "4", "5", "6", "7", "8", "9" >>[d + 1]
  IN  IF n < 10 THEN << digit(n) >> ELSE Append(toString(n \div 10), digit(n % 10))

startsWith(str, prefix) ==
  Len(prefix) <= Len(str) /\ SubSeq(str, 1, Len(prefix)) = prefix

\* handleBetEvent: betKey = `${epoch.toString()}_${sender.toLowerCase()}`
betKeyString(epoch, sender) == toString(epoch) \o << "_" >> \o << toLowerCase(sender) >>

\* clearMemoryForEpoch that compares with the epoch alone
clearMemoryForEpochBarePrefix(entries, epoch) ==
  {r \in entries : ~startsWith(r.key, toString(epoch))}

\* clearMemoryForEpoch: deletes the keys that start with `${epochStr}_`
clearMemoryForEpoch(entries, epoch) ==
  {r \in entries : ~startsWith(r.key, toString(epoch) \o << "_" >>)}

clearMemoryForEpochCall ==
  /\ call.fn = "clearMemoryForEpoch"
  /\ call.pc = "start"
  /\ call' = [call EXCEPT !.pc = "done",
                          !.result = clearMemoryForEpoch(call.args[1], call.args[2])]
  /\ UtilFrame("call")

NextPurge == clearMemoryForEpochCall

\* epochs whose decimal strings are prefixes of one another, and one that is not
PurgeEpochs == {1, 2, 12, 123}

\* a dedup map holding any of the bets of those epochs, entered at a time of its own
\* each, when LockRound of one of the epochs arrives
InitPurge ==
  /\ SystemInit(1, 0, MaxEpoch, {})
  /\ UtilInit("call")
  /\ \E bets \in SUBSET (PurgeEpochs \X Senders), epoch \in PurgeEpochs :
       call = [NoCall EXCEPT
                 !.fn = "clearMemoryForEpoch",
                 !.args = << {[key |-> betKeyString(b[1], b[2]), ts |-> b[1]] : b \in bets},
                             epoch >>,
                 !.pc = "start"]

SpecPurge == InitPurge /\ [][NextPurge]_vars

(***************************************************************************)
(* broadcastToClients over connectedClients, a Set iterated in insertion   *)
(* order.  A socket is [id, readyState, throws]: throws tells whether its  *)
(* send() throws.  calls counts the send() calls per socket, received the  *)
(* messages that went out.                                                 *)
(***************************************************************************)
\* the body of forEach that leaves a socket it could not send to in the set
sendToKeepFailed(acc, ws) ==
  IF ws.readyState = "OPEN"
  THEN IF ws.throws
       THEN [acc EXCEPT !.calls[ws.id] = @ + 1, !.failCount = @ + 1]
       ELSE [acc EXCEPT !.calls[ws.id] = @ + 1, !.received[ws.id] = @ + 1,
                        !.successCount = @ + 1]
  ELSE [acc EXCEPT !.connectedClients = @ \ {ws.id}, !.failCount = @ + 1]

\* the body of forEach: send and count, or delete and count
sendTo(acc, ws) ==
  IF ws.readyState = "OPEN"
  THEN IF ws.throws
       THEN [acc EXCEPT !.calls[ws.id] = @ + 1,
                        !.connectedClients = @ \ {ws.id}, !.failCount = @ + 1]
       ELSE [acc EXCEPT !.calls[ws.id] = @ + 1, !.received[ws.id] = @ + 1,
                        !.successCount = @ + 1]
  ELSE [acc EXCEPT !.connectedClients = @ \ {ws.id}, !.failCount = @ + 1]

\* Set.prototype.forEach: every element once, the deleted ones included
RECURSIVE forEach(_, _)
forEach(acc, clients) ==
  IF clients = << >> THEN acc ELSE forEach(sendTo(acc, Head(clients)), Tail(clients))

broadcastToClients(clients) ==
  forEach([calls |-> [k \in 1..Len(clients) |-> 0],
           received |-> [k \in 1..Len(clients) |-> 0],
           connectedClients |-> 1..Len(clients),
           successCount |-> 0, failCount |-> 0],
          clients)

broadcastToClientsCall ==
  /\ call.fn = "broadcastToClients"
  /\ call.pc = "start"
  /\ call' = [call EXCEPT !.pc = "done", !.result = broadcastToClients(call.args)]
  /\ UtilFrame("call")

NextBroadcast == broadcastToClientsCall

\* up to MaxClients sockets in any state, each with a send() that works or throws
InitBroadcast ==
  /\ SystemInit(1, 0, MaxEpoch, {})
  /\ UtilInit("call")
  /\ \E n \in 0..MaxClients :
       \E readyState \in [1..n -> {"OPEN", "CLOSING", "CLOSED"}], throws \in [1..n -> BOOLEAN] :
         call = [NoCall EXCEPT
                   !.fn = "broadcastToClients",
                   !.args = [k \in 1..n |-> [id |-> k, readyState |-> readyState[k],
                                             throws |-> throws[k]]],
                   !.pc = "start"]

SpecBroadcast == InitBroadcast /\ [][NextBroadcast]_vars

(***************************************************************************)
(* The pools of the crawler.  Pools are numbered as they are created;      *)
(* pools.dbPool is this.dbPool, pools.claimDetector the pool the detector  *)
(* was constructed with (its this.db), pools.ending the pools on which     *)
(* end() was called: a query on one of them rejects.                       *)
(***************************************************************************)
\* initialize: initializeDatabase, then new V6SingleRoundClaimDetector(this.dbPool)
initialize ==
  /\ pools.created = 0
  /\ pools' = [pools EXCEPT !.created = 1, !.dbPool = 1, !.claimDetector = 1]
  /\ UtilFrame("pools")

\* the 'error' event of the current pool: handleDatabaseError
handleDatabaseError ==
  /\ pools.dbPool # 0
  /\ pools.dbHealthy # "false"
  /\ pools' = [pools EXCEPT !.dbHealthy = "false"]
  /\ UtilFrame("pools")

\* reconnectDatabase: end() on the old pool, initializeDatabase, dbHealthy
reconnectDatabase(p, connectFails) ==
  [p EXCEPT !.ending = IF p.dbPool # 0 THEN @ \cup {p.dbPool} ELSE @,
            !.created = @ + 1,
            !.dbPool = p.created + 1,
            !.dbHealthy = IF connectFails THEN "false" ELSE "true"]

\* ensureDatabaseConnection, called by hasRoundData, shouldSkipEpoch and
\* cleanupRealbetData: the test of the flags, SELECT 1, reconnectDatabase
ensureDatabaseConnection(selectFails, connectFails) ==
  /\ pools.claimDetector # 0
  /\ IF pools.dbPool = 0 \/ pools.dbPool \in pools.ending \/ pools.dbHealthy # "true"
        \/ selectFails
     THEN /\ pools.created < MaxPools
          /\ pools' = reconnectDatabase(pools, connectFails)
     ELSE /\ ~connectFails
          /\ pools' = [pools EXCEPT !.dbHealthy = "true"]
  /\ UtilFrame("pools")

\* n Claim rows of one wallet in the claimData of an epoch
ClaimsOfOneWallet(epoch, n) ==
  [k \in 1..n |-> Row("claim", epoch, "0xa", "", "", epoch, k, 5)]

\* processEpochData, line 721: claimDetector.checkSingleRoundMultiClaims(epoch,
\* claimData), whose recordSuspiciousWallets queries the detector's pool and catches
\* the rejection
DetectorCheck(epoch, n) ==
  /\ pools.claimDetector # 0
  /\ LET suspiciousWallets == checkSingleRoundMultiClaims(epoch, ClaimsOfOneWallet(epoch, n))
     IN  pools' = [pools EXCEPT
                     !.asked = @ \cup suspiciousWallets,
                     !.multi_claims = IF pools.claimDetector \in pools.ending
                                      THEN @
                                      ELSE recordSuspiciousWallets(@, suspiciousWallets)]
  /\ UtilFrame("pools")

NextPools ==
  \/ initialize
  \/ handleDatabaseError
  \/ \E selectFails \in BOOLEAN, connectFails \in BOOLEAN :
       ensureDatabaseConnection(selectFails, connectFails)
  \/ \E epoch \in Epochs, n \in {suspiciousThreshold, suspiciousThreshold + 1} :
       DetectorCheck(epoch, n)

InitPools ==
  /\ SystemInit(1, 0, MaxEpoch, {})
  /\ UtilInit("")

SpecPools == InitPools /\ [][NextPools]_vars


(***************************************************************************)
(* ConnectionManager: the websocket with its reconnect handling, and the   *)
(* pool with status.dbConnected, the store operations and the health check.*)
(***************************************************************************)
StoreOperations == {"getDatabaseConnection", "executeQuery", "executeTransaction"}

\* handleWebSocketReconnect: give up at MAX_RECONNECT_ATTEMPTS, else count the attempt
\* and set the timer that calls initializeWebSocketProvider
handleWebSocketReconnect(m) ==
  IF m.reconnectAttempts >= MAX_RECONNECT_ATTEMPTS THEN m
  ELSE [m EXCEPT !.reconnectAttempts = @ + 1, !.reconnectTimer = TRUE]

WsEndpointDown ==
  /\ manager.wsReachable
  /\ manager.wsOutages < MaxOutages
  /\ manager' = [manager EXCEPT !.wsReachable = FALSE, !.wsOutages = @ + 1]
  /\ UtilFrame("manager")

WsEndpointUp ==
  /\ ~manager.wsReachable
  /\ manager' = [manager EXCEPT !.wsReachable = TRUE]
  /\ UtilFrame("manager")

\* websocket.on('close') of the open socket
WsClose ==
  /\ manager.websocket = "open"
  /\ ~manager.wsReachable
  /\ manager' = handleWebSocketReconnect([manager EXCEPT !.websocket = "closed",
                                                         !.wsConnected = FALSE])
  /\ UtilFrame("manager")

\* the timer of handleWebSocketReconnect fires: initializeWebSocketProvider makes a
\* new WebSocketProvider
WsReconnectTimer ==
  /\ manager.reconnectTimer
  /\ manager' = [manager EXCEPT !.reconnectTimer = FALSE, !.websocket = "connecting"]
  /\ UtilFrame("manager")

\* websocket.on('open')
WsOpen ==
  /\ manager.websocket = "connecting"
  /\ manager.wsReachable
  /\ manager' = [manager EXCEPT !.websocket = "open", !.wsConnected = TRUE,
                                !.reconnectAttempts = 0]
  /\ UtilFrame("manager")

\* websocket.on('error') of a socket that cannot connect, and the close that follows
WsError ==
  /\ manager.websocket = "connecting"
  /\ ~manager.wsReachable
  /\ manager' = handleWebSocketReconnect([manager EXCEPT !.websocket = "closed",
                                                         !.wsConnected = FALSE])
  /\ UtilFrame("manager")

DbDown ==
  /\ manager.dbReachable
  /\ manager.dbOutages < MaxOutages
  /\ manager' = [manager EXCEPT !.dbReachable = FALSE, !.dbOutages = @ + 1]
  /\ UtilFrame("manager")

DbUp ==
  /\ ~manager.dbReachable
  /\ manager' = [manager EXCEPT !.dbReachable = TRUE]
  /\ UtilFrame("manager")

\* dbPool.on('error'): an idle client of the pool lost its connection
PoolError ==
  /\ ~manager.dbReachable
  /\ manager.dbConnected
  /\ manager' = [manager EXCEPT !.dbConnected = FALSE]
  /\ UtilFrame("manager")

\* getDatabaseConnection: throws while status.dbConnected is false, else dbPool.connect()
getDatabaseConnection(m) ==
  IF ~m.dbConnected THEN [m |-> m, ok |-> FALSE]
  ELSE IF m.dbReachable
       THEN [m |-> m, ok |-> TRUE]
       ELSE [m |-> [m EXCEPT !.dbConnected = FALSE], ok |-> FALSE]

\* a caller runs getDatabaseConnection, executeQuery or executeTransaction; the
\* latter two begin with getDatabaseConnection and their statements succeed on a
\* client of a reachable store
StoreOperation(fn) ==
  /\ LET got == getDatabaseConnection(manager)
     IN  manager' = [got.m EXCEPT !.op = [fn |-> fn,
                                          result |-> IF got.ok THEN "ok" ELSE "error"]]
  /\ UtilFrame("manager")

\* performHealthCheck: executeQuery('SELECT 1') sets status.dbConnected by its outcome
performHealthCheck ==
  /\ LET got == getDatabaseConnection(manager)
     IN  manager' = [got.m EXCEPT !.dbConnected = got.ok,
                                  !.op = [fn |-> "performHealthCheck",
                                          result |-> IF got.ok THEN "ok" ELSE "error"]]
  /\ UtilFrame("manager")

NextManager ==
  \/ WsEndpointDown
  \/ WsEndpointUp
  \/ WsClose
  \/ WsReconnectTimer
  \/ WsOpen
  \/ WsError
  \/ DbDown
  \/ DbUp
  \/ PoolError
  \/ \E fn \in StoreOperations : StoreOperation(fn)
  \/ performHealthCheck

InitManager ==
  /\ SystemInit(1, 0, LateEpoch, {})
  /\ UtilInit("manager")
  /\ manager = NoManager

\* timers fire, sockets open or fail, the endpoints come back, the health check runs
\* every minute and callers keep using the store
FairManager ==
  /\ InitManager
  /\ [][NextManager]_vars
  /\ WF_vars(WsEndpointUp) /\ WF_vars(WsClose) /\ WF_vars(WsReconnectTimer)
  /\ WF_vars(WsOpen) /\ WF_vars(WsError)
  /\ WF_vars(DbUp) /\ WF_vars(performHealthCheck)
  /\ \A fn \in StoreOperations : WF_vars(StoreOperation(fn))


(***************************************************************************)
(* SuspiciousWalletMonitor.checkSuspiciousWallet.  Flags are named by      *)
(* their trigger; the monitor's clock is Date.now() in milliseconds.       *)
(***************************************************************************)
\* the filter of the high-frequency window with the boundary included
withinWindowInclusive(dateNow, time) == dateNow - time <= HIGH_FREQUENCY_WINDOW

\* validBets: time => now - time < highFrequencyWindow
withinWindow(dateNow, time) == dateNow - time < HIGH_FREQUENCY_WINDOW

checkSuspiciousWallet(m, wallet, amount, epoch) ==
  LET dateNow == m.clock
      currentCount == m.walletBetCounts[wallet]
      Valid(time) == withinWindow(dateNow, time)
      validBets == Append(SelectSeq(m.recentBets[wallet], Valid), dateNow)
      roundCount == m.roundBetCounts[<< wallet, epoch >>]
      flags == (IF amount > MAX_BET_AMOUNT THEN {"LargeAmount"} ELSE {})
                 \cup (IF currentCount + 1 > SUSPICIOUS_BET_COUNT THEN {"HighTotal"} ELSE {})
                 \cup (IF Len(validBets) > MAX_BETS_IN_WINDOW THEN {"HighFrequency"} ELSE {})
                 \cup (IF roundCount + 1 > 1 THEN {"RepeatInRound"} ELSE {})
  IN  [m |-> [m EXCEPT !.walletBetCounts[wallet] = currentCount + 1,
                       !.recentBets[wallet] = validBets,
                       !.roundBetCounts[<< wallet, epoch >>] = roundCount + 1,
                       !.walletBetAmounts[wallet] = @ + amount,
                       !.suspiciousWallets = IF flags # {} THEN @ \cup {wallet} ELSE @],
       result |-> [wallet |-> wallet, amount |-> amount, epoch |-> epoch,
                   isSuspicious |-> flags # {}, flags |-> flags,
                   totalBets |-> currentCount + 1]]

\* one call of checkSuspiciousWallet, dt milliseconds after the one before
CheckBet(wallet, amount, epoch, dt) ==
  /\ monitor.calls < MaxChecks
  /\ LET c == checkSuspiciousWallet([monitor EXCEPT !.clock = @ + dt], wallet, amount, epoch)
     IN  monitor' = [c.m EXCEPT !.calls = @ + 1,
                                !.check = c.result,
                                !.log = Append(@, [wallet |-> wallet, epoch |-> epoch,
                                                   time |-> c.m.clock])]
  /\ UtilFrame("monitor")

NextCheck ==
  \E wallet \in Senders, amount \in {MAX_BET_AMOUNT, MAX_BET_AMOUNT + 1},
     epoch \in LiveEpochs, dt \in {0, HIGH_FREQUENCY_WINDOW \div 2, HIGH_FREQUENCY_WINDOW} :
    CheckBet(wallet, amount, epoch, dt)

\* a monitor that has checked count bets of the first sender in earlier rounds (epoch
\* 0 in the log), the last recent of them just now and the others a window ago
PriorBets(count, recent) ==
  [NoMonitor EXCEPT
     !.clock = HIGH_FREQUENCY_WINDOW,
     !.walletBetCounts["0xA"] = count,
     !.walletBetAmounts["0xA"] = count,
     !.recentBets["0xA"] = [k \in 1..recent |-> HIGH_FREQUENCY_WINDOW],
     !.log = [k \in 1..count |->
                [wallet |-> "0xA", epoch |-> 0,
                 time |-> IF k <= count - recent THEN 0 ELSE HIGH_FREQUENCY_WINDOW]]]

InitCheck ==
  /\ SystemInit(1, 0, MaxEpoch, {})
  /\ UtilInit("monitor")
  /\ \E count \in {0, SUSPICIOUS_BET_COUNT - 1, SUSPICIOUS_BET_COUNT},
        recent \in {0, MAX_BETS_IN_WINDOW - 1, MAX_BETS_IN_WINDOW} :
       /\ recent <= count
       /\ monitor = PriorBets(count, recent)

SpecCheck == InitCheck /\ [][NextCheck]_vars

(***************************************************************************)
(* SuspiciousWalletMonitor.cleanup on the hourly timer.  A map entry that  *)
(* was never set is 0 (the counts), the empty list (recentBets) or absence *)
(* from suspiciousWallets.                                                 *)
(***************************************************************************)
\* cleanup: recentBets keeps the times later than now - 3600000, a wallet left
\* without one is deleted; no other collection is touched
cleanup(m) ==
  LET oneHourAgo == m.clock - OneHour
      Valid(time) == time > oneHourAgo
  IN  [m EXCEPT !.recentBets = [w \in Senders |-> SelectSeq(m.recentBets[w], Valid)]]

\* the cleanup timer fires dt milliseconds after the step before
CleanupTimer(dt) ==
  /\ monitor.clock + dt <= MaxHours * OneHour
  /\ monitor' = cleanup([monitor EXCEPT !.clock = @ + dt])
  /\ UtilFrame("monitor")

\* a bet reaches the detector dt milliseconds after the step before
SweepBet(wallet, amount, epoch, dt) ==
  /\ monitor.clock + dt <= MaxHours * OneHour
  /\ CheckBet(wallet, amount, epoch, dt)

NextSweep ==
  \/ \E wallet \in Senders, amount \in {MAX_BET_AMOUNT, MAX_BET_AMOUNT + 1},
        epoch \in LiveEpochs, dt \in {0, OneHour} :
       SweepBet(wallet, amount, epoch, dt)
  \/ \E dt \in {0, OneHour} : CleanupTimer(dt)

InitSweep ==
  /\ SystemInit(1, 0, MaxEpoch, {})
  /\ UtilInit("")

SpecSweep == InitSweep /\ [][NextSweep]_vars

(***************************************************************************)
(* handleBetEvent with the suspicious-wallet handling.  Every delivered    *)
(* event starts a handler of its own; a handler gives way to the others at *)
(* each awaited query of the store.                                        *)
(***************************************************************************)
\* getWalletNote: SELECT note FROM wallet_note WHERE wallet_address = $1
getWalletNote(m, wallet) == m.wallet_note[wallet]

\* updateWalletNote: upsert under wallet.toLowerCase()
updateWalletNote(m, wallet, note) == [m EXCEPT !.wallet_note[toLowerCase(wallet)] = note]

\* notifyFrontendImmediately: the new_bet broadcast
notifyFrontendImmediately(m, bet) == [m EXCEPT !.sent = Append(@, bet)]

\* handleBetEvent without the processedBets.has return: every delivered event goes on
\* to the detector
BetEventNoDedup(sender, epoch, amount) ==
  /\ monitor.delivered < MaxLive
  /\ LET bet == monitor.delivered + 1
         c == checkSuspiciousWallet(monitor, sender, amount, epoch)
         h == [bet |-> bet, sender |-> sender, epoch |-> epoch,
               flags |-> c.result.flags,
               pc |-> IF c.result.isSuspicious THEN "getWalletNote" ELSE "save"]
         m == [c.m EXCEPT !.delivered = bet, !.check = c.result,
                          !.handlers = @ \cup {h}]
     IN  /\ monitor' = IF c.result.isSuspicious THEN m
                       ELSE notifyFrontendImmediately(m, bet)
         /\ processedBets' = {r \in processedBets : r.key # betKey(epoch, sender)}
                               \cup {[key |-> betKey(epoch, sender), ts |-> now]}
  /\ UNCHANGED << curEpoch, db, conn, faults, crawlerVars, currentRound, now, isConnected,
                  inflight, hist, search, ingest, retry, limiter, call, link, manager, pools >>

\* handleBetEvent up to its first await: the dedup map, checkSuspiciousWallet, and for
\* a bet without flags the new_bet broadcast
BetEvent(sender, epoch, amount) ==
  /\ monitor.delivered < MaxLive
  /\ IF processedBetsHas(betKey(epoch, sender))
     THEN /\ monitor' = [monitor EXCEPT !.delivered = @ + 1]
          /\ UNCHANGED processedBets
     ELSE LET bet == monitor.delivered + 1
              c == checkSuspiciousWallet(monitor, sender, amount, epoch)
              h == [bet |-> bet, sender |-> sender, epoch |-> epoch,
                    flags |-> c.result.flags,
                    pc |-> IF c.result.isSuspicious THEN "getWalletNote" ELSE "save"]
              m == [c.m EXCEPT !.delivered = bet, !.check = c.result,
                               !.handlers = @ \cup {h}]
          IN  /\ monitor' = IF c.result.isSuspicious THEN m
                            ELSE notifyFrontendImmediately(m, bet)
              /\ processedBets' = processedBets \cup {[key |-> betKey(epoch, sender),
                                                       ts |-> now]}
  /\ UNCHANGED << curEpoch, db, conn, faults, crawlerVars, currentRound, now, isConnected,
                  inflight, hist, search, ingest, retry, limiter, call, link, manager, pools >>

\* handleSuspiciousActivity: getWalletNote has answered; with a note the handler goes
\* on to its broadcasts, without one to updateWalletNote
NoteReadStep(h) ==
  /\ h \in monitor.handlers
  /\ h.pc = "getWalletNote"
  /\ LET others == monitor.handlers \ {h}
     IN  monitor' =
           IF getWalletNote(monitor, h.sender) = NoNote
           THEN [monitor EXCEPT !.handlers = others \cup {[h EXCEPT !.pc = "updateWalletNote"]}]
           ELSE notifyFrontendImmediately(
                  [monitor EXCEPT !.handlers = others \cup {[h EXCEPT !.pc = "save"]}], h.bet)
  /\ UtilFrame("monitor")

\* handleSuspiciousActivity: updateWalletNote has answered; notifySuspiciousActivity
\* and the new_bet broadcast follow
NoteWrittenStep(h) ==
  /\ h \in monitor.handlers
  /\ h.pc = "updateWalletNote"
  /\ monitor' = notifyFrontendImmediately(
                  updateWalletNote(
                    [monitor EXCEPT !.handlers = (@ \ {h}) \cup {[h EXCEPT !.pc = "save"]}],
                    h.sender, [flags |-> h.flags, bet |-> h.bet]),
                  h.bet)
  /\ UtilFrame("monitor")

\* saveBetToDatabase has answered: the handler ends
SaveBetStep(h) ==
  /\ h \in monitor.handlers
  /\ h.pc = "save"
  /\ monitor' = [monitor EXCEPT !.handlers = @ \ {h}]
  /\ db' = saveBetToDatabase(h.epoch, h.sender, "UP")
  /\ UNCHANGED << curEpoch, conn, faults, crawlerVars, currentRound, listenerVars, hist,
                  search, ingest, retry, limiter, call, link, manager, pools >>

\* the handler of the bet-th delivered event takes its next step
NoteRead(bet) == \E h \in monitor.handlers : h.bet = bet /\ NoteReadStep(h)
NoteWritten(bet) == \E h \in monitor.handlers : h.bet = bet /\ NoteWrittenStep(h)
SaveBet(bet) == \E h \in monitor.handlers : h.bet = bet /\ SaveBetStep(h)

NextNotes ==
  \/ \E sender \in Senders, epoch \in LiveEpochs, amount \in {MAX_BET_AMOUNT, MAX_BET_AMOUNT + 1} :
       BetEvent(sender, epoch, amount)
  \/ \E bet \in 1..MaxLive : NoteRead(bet) \/ NoteWritten(bet) \/ SaveBet(bet)

InitNotes ==
  /\ SystemInit(1, 0, MaxEpoch, {})
  /\ UtilInit("")

SpecNotes == InitNotes /\ [][NextNotes]_vars

(***************************************************************************)
(* The live pipeline of one listener process: bet events through the dedup *)
(* map and the detector, LockRound events purging the map, the hourly      *)
(* sweep of the map, and the clock.                                        *)
(***************************************************************************)
NextRepeat ==
  \/ \E sender \in Senders, epoch \in LiveEpochs : BetEvent(sender, epoch, MAX_BET_AMOUNT)
  \/ \E bet \in 1..MaxLive : NoteRead(bet) \/ NoteWritten(bet) \/ SaveBet(bet)
  \/ HandleLockRound(LateEpoch)
  \/ cleanupProcessedBets
  \/ Tick

InitRepeat ==
  /\ SystemInit(1, 0, MaxEpoch, {})
  /\ UtilInit("")

SpecRepeat == InitRepeat /\ [][NextRepeat]_vars

(***************************************************************************)
(* Properties.                                                             *)
(***************************************************************************)
HasRow(S, t, e) == \E x \in S : x.t = t /\ x.epoch = e

\* the claim rows a successful processing of epoch e commits
ClaimRowsOf(e) ==
  LET claimData == processClaimEvents(queryFilter("Claim", StartBlock(e), StartBlock(e + 1)), e)
  IN  {claimData[k] : k \in 1..Len(claimData)}

\* C1: saveCompleteRoundData is all-or-nothing: once a failed call has issued its
\* ROLLBACK, none of the rows that call inserted is visible in the store.
C1_RollbackLeavesNoRow ==
  \A p \in Workers : proc[p].pc = "saveFailed" => proc[p].wrote \cap db = {}

\* C2: whenever the round row of epoch E is visible, hisbet holds an UP row and a
\* DOWN row of E and claim holds the claim rows committed with the round.
C2_RoundNeverWithoutBets ==
  \A e \in Epochs :
    HasRow(db, "round", e) =>
      /\ \E x \in db : x.t = "hisbet" /\ x.epoch = e /\ x.dir = "UP"
      /\ \E x \in db : x.t = "hisbet" /\ x.epoch = e /\ x.dir = "DOWN"
      /\ ClaimRowsOf(e) \subseteq db

C4_ThirdFailureQuarantines ==
  \A x \in db : x.t = "failed_epoch" => x.n = SkipThreshold /\ shouldSkipEpoch(1, x.epoch)

\* C5: the rows of an epoch that one worker has committed are not removed by the
\* deleteRoundData of another worker's failure handling
C5_FailureKeepsCommittedRows ==
  [][\A p \in Workers :
       (proc[p].pc = "delete" /\ proc'[p] # proc[p] /\ proc[p].epoch \in hist.saved)
         => EpochRows(db, proc[p].epoch) \subseteq db']_vars

C7_StoppedLoopStartsNoEpoch ==
  [][\A p \in MainLoops :
       p \in hist.stopped => ~(proc[p].pc = "loop" /\ proc'[p].pc = "skipCheck")]_vars

\* C8: every graceful restart, whether the drain ends in time or by its timeout and
\* whether or not the validation fails, leads to a main loop that is started again,
\* and a started loop begins at the current epoch it read minus 2
C8_RestartResumes ==
  /\ (coord.pc \in {"drain", "validate", "vclean", "timer"})
        ~> (\E p \in MainLoops : proc[p].pc = "getEpoch")
  /\ [][\A p \in MainLoops :
         (proc[p].pc = "getEpoch" /\ proc'[p].pc # "getEpoch")
           => /\ proc'[p].cur \in CurrentEpochReads
              /\ proc'[p].checkEpoch = proc'[p].cur - StartOffset
              /\ proc'[p].pc = "loop"]_vars

C8_RestartedAfterTimeout ==
  /\ hist.stopped # {}
  /\ coord.pc = "idle"
  /\ \E p \in MainLoops \ hist.stopped :
       proc[p].pc = "loop" /\ proc[p].checkEpoch = curEpoch - StartOffset

\* C9: the historical pipeline deletes the realbet rows of an epoch only when the
\* round row of that epoch is visible
C9_RealbetDeletedAfterRound == hist.hc = {}

\* C10: once processEpochData(E) has committed and run its cleanup, realbet holds no
\* row of epoch E and no row of an epoch below currentEpoch - 2
C10_CleanupBound ==
  \A p \in Workers :
    proc[p].pc = "detect" =>
      \A x \in db :
        x.t = "realbet" => x.epoch # proc[p].epoch /\ x.epoch >= curEpoch - KeepEpochs

SearchDiff(b) == Abs(search.ts[b] - search.target)

\* C12: over timestamps that never decrease, findBlockByTimestamp returns a block of
\* [1, currentBlock] at minimal distance from the target; a probe that hits the
\* target's timestamp is the last probe and is the block returned; a target at or
\* beyond the head's timestamp returns the head without a probe.
C12_ClosestBlockReturned ==
  LET n == Len(search.ts)
      last == Len(search.probed)
  IN  /\ \A i \in 1..last :
           search.ts[search.probed[i]] = search.target =>
             i = last /\ search.pc = "done" /\ search.result = search.probed[i]
      /\ search.pc = "done" =>
           /\ search.result \in 1..n
           /\ \A b \in 1..n : SearchDiff(search.result) <= SearchDiff(b)
           /\ search.target >= search.ts[n] => search.result = n /\ last = 0

\* a bisection of several probes has returned a block that is neither the head nor
\* an exact hit, with a block on either side further from the target
C12_ClosestFoundByBisection ==
  /\ search.pc = "done"
  /\ Len(search.probed) >= 2
  /\ search.result < Len(search.ts)
  /\ SearchDiff(search.result) > 0
  /\ \E b \in 1..Len(search.ts) : SearchDiff(b) > SearchDiff(search.result)

\* C13: when a block on the other side of the target is as close to it as the block
\* returned, the block returned is the one with the smaller number.
C13_TieGoesToSmallerBlock ==
  search.pc = "done" =>
    \A b \in 1..Len(search.ts) :
      /\ search.ts[b] # search.ts[search.result]
      /\ SearchDiff(b) = SearchDiff(search.result)
      => search.result <= b

\* C14: a stored claim row carries the epoch of every window its event lies in, so
\* the event lies in the window of one epoch only and claim.epoch does not depend
\* on which epoch was processed first.
C14_ClaimEpochOrderFree ==
  \A r \in ingest.claim :
    \A k \in 1..Len(ingest.log) :
      ingest.log[k].tx = r.tx =>
        \A e \in ClosedEpochs(MaxEpoch) :
          InRange(ingest.log[k].block, e, MaxEpoch) => r.epoch = e

RECURSIVE SumAmounts(_)
SumAmounts(S) ==
  IF S = {} THEN 0 ELSE LET r == CHOOSE x \in S : TRUE IN r.n + SumAmounts(S \ {r})

\* the claim rows stored with epoch e and wallet w
StoredClaims(e, w) == {r \in ingest.claim : r.epoch = e /\ r.wallet = w}

\* C15: after processEpochData(E), multi_claims holds a row (E, w) exactly when more
\* than 3 claim rows are stored with epoch E and wallet w; the row's claim_count is the
\* number of those rows and its total_amount their summed claim_amount; there is never
\* a second row (E, w).
C15_MultiClaimsMatchStoredRows ==
  ingest.last # 0 =>
    \A w \in {toLowerCase("0xA")} :
      LET e == ingest.last
          found == {m \in ingest.multi : m.epoch = e /\ m.wallet = w}
      IN  /\ found # {} <=> Cardinality(StoredClaims(e, w)) > suspiciousThreshold
          /\ Cardinality(found) <= 1
          /\ \A m \in found :
               /\ m.claim_count = Cardinality(StoredClaims(e, w))
               /\ m.n = SumAmounts(StoredClaims(e, w))

\* C16: retryRequest invokes the operation at most 3 times and each time after a pass
\* of the rate limiter; it returns the value of the first invocation that succeeds
\* and invokes nothing after it; it has waited 2000 ms after the first failure and
\* 4000 ms after the second and not after the third; it throws exactly when all 3
\* invocations fail, and then the error of the third.
C16_RetryContract ==
  /\ retry.invoked <= 3
  /\ retry.limited = retry.invoked + (IF retry.pc = "call" THEN 1 ELSE 0)
  /\ \A k \in 1..retry.invoked : k < retry.invoked => ~retry.ops[k].ok
  /\ Len(retry.waits) <= 2
  /\ \A k \in 1..Len(retry.waits) : retry.waits[k] = 2000 * k
  /\ Len(retry.waits) = retry.invoked - (IF retry.pc \in {"limit", "call"} THEN 0 ELSE 1)
       \/ retry.pc = "idle"
  /\ retry.pc = "returned" =>
       retry.ops[retry.invoked].ok /\ retry.result = retry.ops[retry.invoked].val
  /\ retry.pc = "thrown" =>
       /\ retry.invoked = 3
       /\ \A k \in 1..3 : ~retry.ops[k].ok
       /\ retry.result = retry.ops[3].val
  /\ retry.pc = "wait" => retry.invoked < 3 /\ ~retry.ops[retry.invoked].ok

\* all three attempts failed with different errors and the last one was thrown
C16_ThirdErrorThrown ==
  /\ retry.pc = "thrown"
  /\ retry.ops[1].val # retry.ops[3].val
  /\ retry.waits = << 2000, 4000 >>

\* C17: any two chain requests start at least 10 ms apart, however the callers of
\* rateLimit interleave.
C17_RequestsSpaced ==
  \A a, b \in Callers :
    /\ a # b
    /\ limiter.callers # << >>
    /\ limiter.callers[a].pc = "request"
    /\ limiter.callers[b].pc = "request"
    => Abs(limiter.callers[a].at - limiter.callers[b].at) >= 10

\* the chain holds an UP bet and a DOWN bet in the window of epoch e
TwoSided(e, cur) ==
  LET range == blockRange(e, cur)
  IN  /\ Len(queryFilter("BetBull", range.fromBlock, range.toBlock)) > 0
      /\ Len(queryFilter("BetBear", range.fromBlock, range.toBlock)) > 0

\* C18: an epoch whose window holds UP and DOWN bets on chain never ends in a failed
\* integrity check and never gets a failed_epoch row, whatever chain requests fail.
C18_RpcFaultNoIntegrityFailure ==
  /\ \A p \in Workers :
       proc[p].pc = "fail" /\ proc[p].reason = "integrity" =>
         ~TwoSided(proc[p].epoch, curEpoch)
  /\ \A e \in Epochs :
       HasRow(db, "failed_epoch", e) /\ getRoundData(e, curEpoch).ok => ~TwoSided(e, curEpoch)

\* C19: every claim row written by a processing of epoch E has epoch = E and
\* bet_epoch = the epoch of the Claim event it was made from, whether or not the two
\* are equal.
C19_ClaimRowKeepsBothEpochs ==
  [][\A r \in ingest'.claim \ ingest.claim :
       /\ r.epoch = ingest'.last
       /\ \E k \in 1..Len(ingest.log) :
            /\ ingest.log[k].tx = r.tx
            /\ r.bepoch = ingest.log[k].epoch
            /\ InRange(ingest.log[k].block, r.epoch, MaxEpoch)]_vars

\* a claim row is stored whose processing epoch is later than the epoch it pays out
C19_ClaimForEarlierEpochStored ==
  \E r \in ingest.claim : r.epoch = ingest.last /\ r.bepoch < r.epoch

\* the hisbet rows processEpochData assembles for epoch e
AssembledBets(e, cur) ==
  LET range == blockRange(e, cur)
      roundData == getRoundData(e, cur)
      betData == processBetEvents(queryFilter("BetBull", range.fromBlock, range.toBlock),
                                  "UP", roundData.result)
                   \o processBetEvents(queryFilter("BetBear", range.fromBlock, range.toBlock),
                                       "DOWN", roundData.result)
  IN  {betData[k] : k \in 1..Len(betData)}

\* the result column the bet row r of a round with these prices is to carry
Labelled(r, lockPrice, closePrice) ==
  /\ closePrice = lockPrice => r.res = "NONE"
  /\ closePrice > lockPrice => r.res = (IF r.dir = "UP" THEN "WIN" ELSE "LOSS")
  /\ closePrice < lockPrice => r.res = (IF r.dir = "DOWN" THEN "WIN" ELSE "LOSS")

\* C20: a hisbet row, as assembled for any closed round and as stored, has direction UP
\* when made from a BetBull event and DOWN when made from a BetBear event; its result
\* is WIN when the direction is the round's result, LOSS when it is the opposite, and
\* absent when the round's close price equals its lock price.
C20_BetRowsLabelled ==
  LET assembled == UNION {AssembledBets(e, curEpoch) : e \in ClosedEpochs(curEpoch)}
  IN  /\ \A r \in db : r.t = "hisbet" => r \in assembled
      /\ \A r \in assembled :
           /\ r.dir = "UP" <=>
                \E k \in 1..Len(LogOf("BetBull", MaxEpoch)) : LogOf("BetBull", MaxEpoch)[k].tx = r.tx
           /\ r.dir = "DOWN" <=>
                \E k \in 1..Len(LogOf("BetBear", MaxEpoch)) : LogOf("BetBear", MaxEpoch)[k].tx = r.tx
           /\ Labelled(r, rounds(r.epoch, curEpoch).lockPrice,
                       rounds(r.epoch, curEpoch).closePrice)

\* the store holds a winning and a losing bet of one round and a bet of a drawn round
C20_WinLossAndDrawStored ==
  /\ \E r \in db : r.t = "hisbet" /\ r.res = "NONE"
  /\ \E r, q \in db : /\ r.t = "hisbet" /\ q.t = "hisbet" /\ r.epoch = q.epoch
                       /\ r.res = "WIN" /\ q.res = "LOSS"

\* the number of rows of betData with direction dir
BetsOf(betData, dir) == Cardinality({k \in 1..Len(betData) : betData[k].dir = dir})

\* C21: validateDataIntegrity accepts exactly when round data is present and the bets
\* hold at least one UP and at least one DOWN row, whether or not the claim list is
\* empty and whether or not the round drew; an accepted epoch goes on to the commit,
\* a rejected one does not.
C21_AcceptsExactlyTwoSided ==
  call.fn = "validateDataIntegrity" /\ call.pc = "done" =>
    /\ call.result.valid <=>
         /\ call.args.roundData # NoRoundData
         /\ BetsOf(call.args.betData, "UP") >= 1
         /\ BetsOf(call.args.betData, "DOWN") >= 1
    /\ call.result.valid <=> call.result.next = "saveCompleteRoundData"

\* a drawn round with bets on both sides and no claim has been accepted
C21_DrawWithoutClaimsAccepted ==
  /\ call.fn = "validateDataIntegrity" /\ call.pc = "done"
  /\ call.result.valid
  /\ call.args.roundData.result = "NONE"
  /\ Len(call.args.claimData) = 0

\* payout is a four-decimal value nearest to total * 0.97 / amount
NearestPayout(payout, total, amount) ==
  LET exact == total * (PayoutScale - TreasuryFeeRate)
      diff == payout * amount - exact
  IN  2 * (IF diff < 0 THEN -diff ELSE diff) <= amount

\* C23: calculatePayouts gives up_payout = total * 0.97 / up_amount rounded to four
\* decimals when up_amount > 0 and 0 otherwise, down_payout likewise from down_amount;
\* total 10 and up 6 give 1.6167.
C23_PayoutsRoundedToFourDecimals ==
  call.fn = "calculatePayouts" /\ call.pc = "done" =>
    LET total == call.args[1]
        upAmount == call.args[2]
        downAmount == call.args[3]
    IN  /\ IF upAmount > 0
           THEN NearestPayout(call.result.upPayout, total, upAmount)
           ELSE call.result.upPayout = 0
        /\ IF downAmount > 0
           THEN NearestPayout(call.result.downPayout, total, downAmount)
           ELSE call.result.downPayout = 0
        /\ total = 10 /\ upAmount = 6 => call.result.upPayout = 16167

\* total 10 with 6 on UP and 4 on DOWN has been paid out as 1.6167 and 2.4250
C23_TenSixFourPaid ==
  /\ call.fn = "calculatePayouts" /\ call.pc = "done"
  /\ call.args = << 10, 6, 4 >>
  /\ call.result = [upPayout |-> 16167, downPayout |-> 24250]

\* C22: an epoch whose round the chain shows unfinished (closeTimestamp 0, or the next
\* round's startTimestamp 0) has no round row and no recorded failure: every
\* processing of it so far returned without a write; so a round row is in the store
\* only for an epoch that passed both tests when the row was committed.
C22_UnfinishedRoundLeavesNoTrace ==
  \A e \in Epochs :
    (rounds(e, curEpoch).closeTimestamp = 0 \/ rounds(e + 1, curEpoch).startTimestamp = 0)
      => /\ ~HasRow(db, "round", e)
         /\ failedAttempts[e] = 0
         /\ ~HasRow(db, "failed_epoch", e)

\* an unfinished round has been processed and given up at the two tests, and a
\* finished round has been committed
C22_UnfinishedProcessedAndFinishedSaved ==
  /\ hist.unfinished \in Epochs
  /\ rounds(hist.unfinished, curEpoch).closeTimestamp = 0
  /\ \E e \in Epochs : HasRow(db, "round", e)

\* the main loops start at the current epoch read minus 2, keep checkEpoch or lower it
\* by one and only after an epoch is done with, and leave an epoch, whatever its
\* outcome, for the next lower one
LoopDescends ==
  \A p \in MainLoops :
    /\ (proc[p].pc = "getEpoch" /\ proc'[p].pc # "getEpoch")
         => proc'[p].pc = "loop" /\ proc'[p].checkEpoch = proc'[p].cur - StartOffset
    /\ (proc[p].pc \notin {"idle", "getEpoch"} /\ proc'[p].pc # "idle")
         => \/ proc'[p].checkEpoch = proc[p].checkEpoch
            \/ /\ proc[p].pc = "afterEpoch"
               /\ proc'[p].checkEpoch = proc[p].checkEpoch - 1
    /\ (proc[p].pc \in InsideEpoch /\ proc'[p].pc \notin InsideEpoch)
         => proc'[p].pc = "afterEpoch"
    /\ (proc[p].pc = "afterEpoch" /\ proc'[p].pc \notin {"afterEpoch", "idle"})
         => proc'[p].pc = "loop" /\ proc'[p].checkEpoch = proc[p].checkEpoch - 1
    /\ (proc[p].pc \notin InsideEpoch /\ proc'[p].pc \in InsideEpoch)
         => /\ proc[p].pc = "loop"
            /\ proc'[p].epoch = proc[p].checkEpoch
            /\ proc[p].checkEpoch > 0

\* every main loop that was started ends
LoopTerminates ==
  \A p \in MainLoops : (proc[p].pc = "getEpoch") ~> (proc[p].pc = "idle")

\* C24 as stated: processHistoryData starts at currentEpoch - 2, visits the epochs in
\* steps of 1 downwards, processes only those without a round row, never one <= 0,
\* goes on to the next lower epoch after an error, and terminates
C24_ProcessesOnlyUnstoredEpochs ==
  /\ LoopTerminates
  /\ [][LoopDescends]_vars
  /\ [][\A p \in MainLoops :
         (proc[p].pc = "loop" /\ proc'[p].pc \in InsideEpoch)
           => \E c \in Clients : ~hasRoundData(c, proc[p].checkEpoch)]_vars

\* C24 amended: as above, but the epochs processed are those whose round-row lookup
\* finds no row or fails
C24_ProcessesUnlessLookupFindsRow ==
  /\ LoopTerminates
  /\ [][LoopDescends]_vars
  /\ [][\A p \in MainLoops :
         (proc[p].pc = "loop" /\ proc'[p].pc \in InsideEpoch)
           => \/ \E c \in Clients : ~hasRoundData(c, proc[p].checkEpoch)
              \/ faults' < faults]_vars

\* the loop has ended after it passed over the stored epoch, failed on the epoch
\* below it and saved the one below that
C24_LoopEndedBelowFailedEpoch ==
  /\ coord.pc = "idle"
  /\ \A p \in MainLoops : proc[p].pc = "idle"
  /\ ~isProcessingHistory
  /\ failedAttempts[MaxEpoch - StartOffset - 1] = 1
  /\ HasRow(db, "round", MaxEpoch - StartOffset - 2)
  /\ faults = MaxFaults

\* the listener is connected: its flag is set, the socket of this.provider is open, the
\* handlers are subscribed on the contract of that socket and the last
\* connection_status that was broadcast is true
Connected ==
  /\ isConnected
  /\ link.provider \in Sockets
  /\ link.sock[link.provider] = "open"
  /\ link.subscribed = link.provider
  /\ link.status = "true"

\* C25: when the chain websocket closes the listener broadcasts connection_status false
\* and sets the reconnect timer, a failed attempt sets it again, and once the endpoint
\* stays reachable the listener is eventually connected, with its handlers subscribed
\* and connection_status true broadcast.
C25_ReconnectsOnceReachable ==
  /\ [][\A s \in Sockets :
         (link.sock[s] # "closed" /\ link'.sock[s] = "closed")
           => link'.status = "false" /\ link'.reconnectTimer]_vars
  /\ (link.reachable /\ link.outages = MaxOutages) ~> Connected

\* C26: reconnectAttempts never exceeds 5 and is reset to 0 when a socket opens, and
\* the manager does not stop retrying after the fifth failed attempt: once the
\* endpoint stays reachable the websocket is eventually connected again.
C26_KeepsRetryingAfterFifthFailure ==
  /\ [](manager.reconnectAttempts <= MAX_RECONNECT_ATTEMPTS)
  /\ [][(manager.websocket # "open" /\ manager'.websocket = "open")
          => manager'.reconnectAttempts = 0]_vars
  /\ (manager.wsReachable /\ manager.wsOutages = MaxOutages)
       ~> (manager.wsConnected /\ manager.websocket = "open")

\* C27: after a pool error has set status.dbConnected to false, once the store stays
\* reachable the health check or an operation re-establishes it: getDatabaseConnection,
\* executeQuery and executeTransaction succeed again.
C27_StoreHealsWithoutReinitialize ==
  \A fn \in StoreOperations :
    (manager.dbReachable /\ manager.dbOutages = MaxOutages)
      ~> (manager.dbConnected /\ manager.op = [fn |-> fn, result |-> "ok"])

\* C28: the new_bet messages go out in the order in which their events were delivered
\* to handleBetEvent, also while the handler of an earlier, flagged bet awaits the
\* wallet-note queries.
C28_NewBetsInDeliveryOrder ==
  \A i, j \in 1..Len(monitor.sent) : i < j => monitor.sent[i] < monitor.sent[j]

\* C29: a flagged bet writes an auto-note iff wallet_note holds no note for its wallet,
\* whatever the case of the address, and a note once written is not replaced by a
\* later flagged bet of the wallet.
C29_NoteWrittenOnlyOnce ==
  [][/\ \A a \in Addresses :
          monitor.wallet_note[a] # NoNote => monitor'.wallet_note[a] = monitor.wallet_note[a]
     /\ \A h \in monitor.handlers :
          (h.pc = "getWalletNote" /\ h \notin monitor'.handlers)
            => (([h EXCEPT !.pc = "updateWalletNote"] \in monitor'.handlers)
                  <=> monitor.wallet_note[toLowerCase(h.sender)] = NoNote)]_vars

\* the checked bets of the wallet in the log, the last one included
CheckedBets(wallet) ==
  {k \in 1..Len(monitor.log) : monitor.log[k].wallet = wallet}

\* C30: checkSuspiciousWallet returns exactly the flags whose trigger holds:
\* LargeAmount iff amount > 10, HighTotal iff the wallet's checked bets including this
\* one number more than 100, HighFrequency iff more than 10 of them lie within the last
\* 60 s, RepeatInRound iff this is at least the wallet's second checked bet of the
\* epoch; isSuspicious iff there is a flag.
C30_FlagsMatchTriggers ==
  monitor.calls > 0 =>
    LET ck == monitor.check
        mine == CheckedBets(ck.wallet)
        recent == {k \in mine : monitor.clock - monitor.log[k].time < HIGH_FREQUENCY_WINDOW}
        inRound == {k \in mine : monitor.log[k].epoch = ck.epoch}
    IN  /\ "LargeAmount" \in ck.flags <=> ck.amount > MAX_BET_AMOUNT
        /\ "HighTotal" \in ck.flags <=> Cardinality(mine) > SUSPICIOUS_BET_COUNT
        /\ "HighFrequency" \in ck.flags <=> Cardinality(recent) > MAX_BETS_IN_WINDOW
        /\ "RepeatInRound" \in ck.flags <=> Cardinality(inRound) >= 2
        /\ ck.flags \subseteq {"LargeAmount", "HighTotal", "HighFrequency", "RepeatInRound"}
        /\ ck.isSuspicious <=> ck.flags # {}

\* the second call after the prior bets has raised the four flags at once
C30_AllFlagsAtOnce ==
  /\ monitor.calls = MaxChecks
  /\ monitor.check.flags = {"LargeAmount", "HighTotal", "HighFrequency", "RepeatInRound"}
  /\ monitor.check.isSuspicious

\* the wallet has an entry in one of the detector's five collections
HasEntry(m, w) ==
  \/ m.walletBetCounts[w] > 0
  \/ m.walletBetAmounts[w] > 0
  \/ Len(m.recentBets[w]) > 0
  \/ \E e \in LiveEpochs : m.roundBetCounts[<< w, e >>] > 0
  \/ w \in m.suspiciousWallets

\* the wallet has placed a bet within the last hour
BetWithinHour(m, w) ==
  \E k \in 1..Len(m.log) : m.log[k].wallet = w /\ m.log[k].time > m.clock - OneHour

\* C31: after cleanup() has run, no entry of walletBetCounts, walletBetAmounts,
\* roundBetCounts, recentBets or suspiciousWallets remains for a wallet that has
\* placed no bet within the last hour.
C31_CleanupLeavesOnlyActiveWallets ==
  [][(\E dt \in {0, OneHour} : CleanupTimer(dt))
       => \A w \in Senders : HasEntry(monitor', w) => BetWithinHour(monitor', w)]_vars

\* processEpochRange starts at startEpoch, moves from an epoch to the next higher one
\* and only when it is done with it, whatever its outcome, hands no epoch above
\* endEpoch to processEpochData, and ends when the epoch after endEpoch is reached
RangeAscends ==
  LET me == proc["range"]
      next == proc'["range"]
  IN  /\ (me.pc = "idle" /\ next.pc # "idle")
           => next.pc = "rangeLoop" /\ next.checkEpoch = next.cur
      /\ me.pc # "idle" => next.cur = me.cur /\ next.i = me.i
      /\ (me.pc = "rangeLoop" /\ next.pc \in InsideEpoch)
           => /\ me.checkEpoch <= me.i
              /\ next.epoch = me.checkEpoch
              /\ next.checkEpoch = me.checkEpoch
      /\ (me.pc = "rangeLoop" /\ next.pc = "rangeLoop" /\ next # me)
           => me.checkEpoch <= me.i /\ next.checkEpoch = me.checkEpoch + 1
      /\ (me.pc \in InsideEpoch /\ next.pc \in InsideEpoch)
           => next.checkEpoch = me.checkEpoch /\ next.epoch = me.epoch
      /\ (me.pc \in InsideEpoch /\ next.pc \notin InsideEpoch)
           => next.pc = "rangeLoop" /\ next.checkEpoch = me.checkEpoch + 1
      /\ (me.pc = "rangeLoop" /\ next.pc = "rangeDone")
           => me.checkEpoch = (IF me.cur <= me.i THEN me.i + 1 ELSE me.cur)
      /\ me.pc = "rangeDone" => next = me

\* every call of processEpochRange returns
RangeTerminates == (proc["range"].pc = "rangeLoop") ~> (proc["range"].pc = "rangeDone")

\* C32 as stated: processEpochRange(start, end) visits every epoch of [start, end]
\* once, in ascending order, skips those whose round row exists, runs processEpochData
\* on the others, goes on with the next epoch when one fails, and terminates after end
C32_RangeSkipsStoredEpochs ==
  /\ RangeTerminates
  /\ [][RangeAscends]_vars
  /\ [][(proc["range"].pc = "rangeLoop" /\ proc["range"].checkEpoch <= proc["range"].i)
          => (proc'["range"].pc = "rangeLoop"
                <=> \E c \in Clients : hasRoundData(c, proc["range"].checkEpoch))]_vars

\* C32 amended: as above, but the epochs skipped are those whose round-row lookup
\* finds a row; an epoch whose lookup fails is processed
C32_RangeSkipsWhenLookupFindsRow ==
  /\ RangeTerminates
  /\ [][RangeAscends]_vars
  /\ [][(proc["range"].pc = "rangeLoop" /\ proc["range"].checkEpoch <= proc["range"].i)
          => (proc'["range"].pc = "rangeLoop"
                <=> /\ \E c \in Clients : hasRoundData(c, proc["range"].checkEpoch)
                    /\ faults' = faults)]_vars

\* the range 1..3 is done: the stored epoch 1 was passed over, epoch 2 failed its
\* validation and epoch 3 was saved after it
C32_RangeDoneAcrossFailedEpoch ==
  /\ proc["range"].pc = "rangeDone"
  /\ proc["range"].cur = 1 /\ proc["range"].i = 3
  /\ failedAttempts[2] = 1
  /\ HasRow(db, "round", 3)
  /\ faults = MaxFaults

\* C33: the timestamp processEpochData hands to the block search for fromBlock is the
\* on-chain round(E).startTimestamp, the Taipei string and its parse cancelling out in
\* every local time zone of the process, and the one for toBlock is
\* round(E+1).startTimestamp.
C33_SearchUsesChainTimestamps ==
  call.fn = "searchTimestamps" /\ call.pc = "done" =>
    /\ call.result.currentStartTime = rounds(call.args[1], call.args[2]).startTimestamp
    /\ call.result.nextStartTime = rounds(call.args[1] + 1, call.args[2]).startTimestamp

\* C34: handling LockRound(e) removes from the dedup map exactly the entries of epoch
\* e and leaves the entries of every other epoch as they were, also of an epoch whose
\* decimal string starts with that of e.
C34_PurgesExactlyLockedEpoch ==
  call.fn = "clearMemoryForEpoch" /\ call.pc = "done" =>
    LET entries == call.args[1]
        epoch == call.args[2]
        ofEpoch == {r \in entries : \E w \in Senders : r.key = betKeyString(epoch, w)}
    IN  call.result = entries \ ofEpoch

\* LockRound(12) has purged the two entries of epoch 12 from a map that also held
\* entries of epochs 1 and 123, which are still there
C34_Purged12Kept123 ==
  /\ call.fn = "clearMemoryForEpoch" /\ call.pc = "done"
  /\ call.args[2] = 12
  /\ Cardinality(call.args[1]) = Cardinality(call.result) + 2
  /\ \E r \in call.result : r.key = betKeyString(123, "0xA")
  /\ \E r \in call.result : r.key = betKeyString(1, "0xB")

\* C35: broadcastToClients calls send once for every client whose socket is OPEN and
\* for no other, the message reaching those whose send does not throw; it removes the
\* clients that are not OPEN or whose send throws and keeps the others; successCount +
\* failCount is the number of clients at the start of the call.
C35_BroadcastSendsOnceAndPrunes ==
  call.fn = "broadcastToClients" /\ call.pc = "done" =>
    LET clients == call.args
        r == call.result
    IN  /\ \A k \in 1..Len(clients) :
             /\ r.calls[k] = (IF clients[k].readyState = "OPEN" THEN 1 ELSE 0)
             /\ r.received[k] =
                  (IF clients[k].readyState = "OPEN" /\ ~clients[k].throws THEN 1 ELSE 0)
             /\ k \in r.connectedClients
                  <=> clients[k].readyState = "OPEN" /\ ~clients[k].throws
        /\ r.successCount + r.failCount = Len(clients)

\* a broadcast to three clients has reached one, dropped a closed one and dropped one
\* whose send threw
C35_OneReachedTwoPruned ==
  /\ call.fn = "broadcastToClients" /\ call.pc = "done"
  /\ Len(call.args) = 3
  /\ call.result.successCount = 1 /\ call.result.failCount = 2
  /\ \E k \in 1..3 : call.args[k].readyState = "CLOSED"
  /\ \E k \in 1..3 : call.args[k].readyState = "OPEN" /\ call.args[k].throws

\* the processHistoryData invocations that have not returned
ActiveLoops == {p \in MainLoops : proc[p].pc # "idle"}

\* C36: at most one processHistoryData loop is active at any time, under every
\* interleaving of startHistoryBackfill, gracefulStopAndRestart with its forced stop
\* and stopHistoryBackfill; a loop that was in an epoch when it was told to stop enters
\* no further epoch while another loop is active, and when it returns beside another
\* loop it leaves isProcessingHistory as it is.
C36_SingleHistoryLoop ==
  /\ [](Cardinality(ActiveLoops) <= 1)
  /\ [][\A p \in hist.stopped :
          ActiveLoops \ {p} # {} => ~(proc[p].pc = "loop" /\ proc'[p].pc \in InsideEpoch)]_vars
  /\ [][\A p \in ActiveLoops :
          (proc'[p].pc = "idle" /\ ActiveLoops \ {p} # {} /\ coord'.pc # "halted")
            => isProcessingHistory' = isProcessingHistory]_vars

\* C37: whenever the listener is marked connected, no reconnect is pending and no
\* connection attempt is under way, the bet and round handlers are subscribed on the
\* contract of this.provider and the socket of that provider is open; so also after an
\* attempt that timed out and whose socket opened later.
C37_ConnectedMeansSubscribed ==
  (isConnected /\ ~link.reconnectTimer /\ link.attempt.pc = "idle")
    => /\ link.provider \in Sockets
       /\ link.subscribed = link.provider
       /\ link.sock[link.provider] = "open"

\* C38: the detector writes multi_claims through the crawler's current live pool: its
\* pool is this.dbPool and has not been ended, and every wallet it has flagged is in
\* multi_claims, also after ensureDatabaseConnection or reconnectDatabase replaced the
\* pool.
C38_DetectorUsesLivePool ==
  pools.claimDetector # 0 =>
    /\ pools.claimDetector = pools.dbPool
    /\ pools.claimDetector \notin pools.ending
    /\ \A m \in pools.asked : m \in pools.multi_claims

\* C39: a bet reaches the detector only when its dedup entry is absent, and leaves the
\* entry present; an entry disappears only in a LockRound purge or an hourly sweep.  So
\* a bet that gets the RepeatInRound flag found an earlier bet of its wallet and epoch
\* counted and the dedup entry of that bet removed in between
C39_RepeatOnlyAfterRemoval ==
  [][/\ \A w \in Senders, e \in LiveEpochs :
          monitor'.roundBetCounts[<< w, e >>] # monitor.roundBetCounts[<< w, e >>]
            => /\ ~processedBetsHas(betKey(e, w))
               /\ \E r \in processedBets' : r.key = betKey(e, w)
     /\ \A h \in monitor'.handlers :
          (h.bet > monitor.delivered /\ "RepeatInRound" \in h.flags)
            => /\ monitor.roundBetCounts[<< h.sender, h.epoch >>] >= 1
               /\ ~processedBetsHas(betKey(h.epoch, h.sender))
     /\ \A r \in processedBets :
          (~\E q \in processedBets' : q.key = r.key)
            => \/ HandleLockRound(r.key[1])
               \/ cleanupProcessedBets]_vars

\* C39 witness: a second bet of a wallet in an epoch was flagged RepeatInRound
C39_RepeatFlagged ==
  \E h \in monitor.handlers :
    /\ "RepeatInRound" \in h.flags
    /\ monitor.roundBetCounts[<< h.sender, h.epoch >>] >= 2

\* C40: once cleanup() has run, no reconnect timer is pending, no run of
\* startBlockchainListener begins, no connection_status broadcast goes out and no
\* contract has the listener's event handlers
C40_CleanupIsFinal ==
  /\ [](link.cleaned => ~link.reconnectTimer /\ link.subscribed = 0)
  /\ [][link.cleaned => /\ (link'.attempt.pc = "waiting" => link.attempt.pc = "waiting")
                        /\ link'.status = link.status]_vars

====
